---- MODULE Spec2Model ----
(***************************************************************************)
(* A model of python-tradeking's option payoff engine (tradeking/option.py) *)
(* and of the helpers it rests on (tradeking/utils.py): the TTL cached     *)
(* property, Leg, MultiLeg and the option symbol codec.                    *)
(*                                                                         *)
(* Prices are utils.Price values: integers (decimal shifted by BASE).      *)
(***************************************************************************)
EXTENDS Integers, Sequences, FiniteSets, TLC

VARIABLES
    legs,     \* the Leg instances constructed so far, by identity (index)
    mls,      \* the MultiLeg instances: _legs (a list of Leg identities), _cache
    now,      \* time.time()
    ttl,      \* cached_property.ttl
    last,     \* the last operation and, for a read, how it ended
    waiting,  \* the reads that wait on a request to the premium source
    thr,      \* the reader threads: where each is in its read, and its locals
    codec,    \* the option symbol codec's inputs and what it made of them
    oq        \* the OptionQuery constructed: its input, _query and str()

vars == <<legs, mls, now, ttl, last, waiting, thr, codec, oq>>

----------------------------------------------------------------------------
(* Program constants *)

CALL == "C"
PUT == "P"
LONG == "L"
SHORT == "S"

DEFAULT_TTL == 300
BASE_FEE == 4950
PER_LEG == 650

Props == {"payoffs", "cost", "premium"}

----------------------------------------------------------------------------
(* Bounds *)

MaxLegs == 2
MaxMembers == 2
MaxTime == 301

ClockSteps == {300, 301}
TTLs == {0, DEFAULT_TTL}

\* what the premium source does when it is asked for one symbol: it
\* answers a quote, or it raises; a premium that asks no source has no answer
QUOTE == 7
Quote(v) == [answer |-> "quote", value |-> v]
Raise == [answer |-> "raise", value |-> 0]
Unasked == [answer |-> "none", value |-> 0]
Answers == {Quote(QUOTE), Raise}

\* the threads that read. The request of tradeking_premium's premium blocks
\* its thread, and the other thread runs meanwhile
Readers == {"r1", "r2"}

\* a thread that is in no read
NoRead ==
    [op |-> "idle", leg |-> 0, ml |-> "", at |-> 0, i |-> 0, acc |-> 0,
     asked |-> 0, asked_at |-> 0, payoffs |-> <<>>, cost |-> 0]

\* the Legs the model constructs (prices already Price-encoded)
LegInputs ==
    { [symbol |-> <<"F">>, long_short |-> LONG,
       expiration |-> [y |-> 2032, m |-> 6, d |-> 17], call_put |-> CALL,
       strike |-> 3, price_range |-> 1, tick_size |-> 1, zero |-> FALSE],
      [symbol |-> <<"F">>, long_short |-> SHORT,
       expiration |-> [y |-> 2032, m |-> 6, d |-> 17], call_put |-> PUT,
       strike |-> 5, price_range |-> 2, tick_size |-> 2, zero |-> TRUE] }

\* and one more where premiums are summed: a short leg with a live premium
\* source
CacheLegInputs ==
    LegInputs \cup
    { [symbol |-> <<"F">>, long_short |-> SHORT,
       expiration |-> [y |-> 2032, m |-> 6, d |-> 17], call_put |-> CALL,
       strike |-> 4, price_range |-> 1, tick_size |-> 1, zero |-> FALSE] }

\* arguments Leg refuses or rewrites: a strike of 0.0, a type that is no
\* type, and flags in lower case
OddLegInputs ==
    { [symbol |-> <<"F">>, long_short |-> LONG,
       expiration |-> [y |-> 2032, m |-> 6, d |-> 17], call_put |-> CALL,
       strike |-> 0, price_range |-> 1, tick_size |-> 1, zero |-> TRUE],
      [symbol |-> <<"F">>, long_short |-> LONG,
       expiration |-> [y |-> 2032, m |-> 6, d |-> 17], call_put |-> "X",
       strike |-> 3, price_range |-> 1, tick_size |-> 1, zero |-> TRUE],
      [symbol |-> <<"F">>, long_short |-> "s",
       expiration |-> [y |-> 2032, m |-> 6, d |-> 17], call_put |-> "p",
       strike |-> 5, price_range |-> 2, tick_size |-> 2, zero |-> TRUE] }

----------------------------------------------------------------------------
(* Helpers *)

Max2(a, b) == IF a >= b THEN a ELSE b
SetMin(S) == CHOOSE x \in S : \A y \in S : x <= y
SetMax(S) == CHOOSE x \in S : \A y \in S : x >= y
SeqRange(s) == { s[i] : i \in 1..Len(s) }

\* range(start, stop, step) for step > 0
PyRange(start, stop, step) ==
    { p \in start..(stop - 1) : (p - start) % step = 0 }

\* pandas Series.add(other, fill_value=0): the union of the two indexes, a
\* key missing on one side counting as 0
SeriesAdd(a, b) ==
    [p \in (DOMAIN a) \cup (DOMAIN b) |->
        (IF p \in DOMAIN a THEN a[p] ELSE 0) + (IF p \in DOMAIN b THEN b[p] ELSE 0)]

EmptySeries == <<>>

----------------------------------------------------------------------------
(* utils.cached_property *)

NoCache == [present |-> FALSE, d |-> <<>>]

\* CacheHit with the expiry test off by one (>= for >)
CacheHit_OffByOne(cache, name, t) ==
    /\ cache.present
    /\ name \in DOMAIN cache.d
    /\ ~(ttl > 0 /\ t - cache.d[name].at >= ttl)

\* the try block of __get__: the entry is there and has not expired
CacheHit(cache, name, t) ==
    /\ cache.present
    /\ name \in DOMAIN cache.d
    /\ ~(ttl > 0 /\ t - cache.d[name].at > ttl)

\* cache[self.__name__] = (value, now), creating inst._cache when missing
CacheStore(cache, name, v, t) ==
    [present |-> TRUE,
     d |-> [p \in (DOMAIN cache.d) \cup {name} |->
               IF p = name THEN [value |-> v, at |-> t] ELSE cache.d[p]]]

\* del inst._cache[name]
CacheDel(cache, name) ==
    [present |-> cache.present,
     d |-> [p \in (DOMAIN cache.d) \ {name} |-> cache.d[p]]]

----------------------------------------------------------------------------
(* utils.Price, utils.option_symbol, utils.parse_option_symbol              *)
(*                                                                         *)
(* A str is the sequence of its characters. A float dollar amount is the   *)
(* count of its thousandths, k standing for the double nearest k/1000; a   *)
(* date is its year, month and day.                                        *)

Digits == <<"0", "1", "2", "3", "4", "5", "6", "7", "8", "9">>

IsDigit(c) == \E i \in DOMAIN Digits : Digits[i] = c

DigitVal(c) == (CHOOSE i \in DOMAIN Digits : Digits[i] = c) - 1

AllDigits(s) == \A i \in DOMAIN s : IsDigit(s[i])

\* str(n) of an int
RECURSIVE IntStr(_)
IntStr(n) ==
    IF n < 0 THEN <<"-">> \o IntStr(0 - n)
    ELSE IF n < 10 THEN <<Digits[n + 1]>>
    ELSE IntStr(n \div 10) \o <<Digits[(n % 10) + 1]>>

\* the int a str of digits reads as
RECURSIVE StrInt(_)
StrInt(s) ==
    IF s = <<>> THEN 0
    ELSE 10 * StrInt(SubSeq(s, 1, Len(s) - 1)) + DigitVal(s[Len(s)])

\* '0' * n, empty for n <= 0
RECURSIVE Zeros(_)
Zeros(n) == IF n <= 0 THEN <<>> ELSE <<"0">> \o Zeros(n - 1)

\* s[a:b] with a and b counted from the end of s (a, b <= 0; 0 is the end)
FromEnd(s, a, b) ==
    LET lo == Max2(Len(s) + a, 0)
        hi == Max2(Len(s) + b, 0)
    IN  SubSeq(s, lo + 1, hi)

\* s[:b] with b counted from the end
UpToEnd(s, b) == SubSeq(s, 1, Max2(Len(s) + b, 0))

Lower ==
    <<"a", "b", "c", "d", "e", "f", "g", "h", "i", "j", "k", "l", "m",
      "n", "o", "p", "q", "r", "s", "t", "u", "v", "w", "x", "y", "z">>

Upper ==
    <<"A", "B", "C", "D", "E", "F", "G", "H", "I", "J", "K", "L", "M",
      "N", "O", "P", "Q", "R", "S", "T", "U", "V", "W", "X", "Y", "Z">>

\* str.upper(), character by character
upper_char(c) ==
    IF \E i \in DOMAIN Lower : Lower[i] = c
    THEN Upper[CHOOSE i \in DOMAIN Lower : Lower[i] = c]
    ELSE c

RECURSIVE upper(_)
upper(s) == IF s = <<>> THEN <<>> ELSE <<upper_char(Head(s))>> \o upper(Tail(s))

\* The strikes of StrikeInputs whose product with BASE, rounded to a double,
\* falls just below the whole number of thousandths: float 1.001 * 1000.0
\* is 1000.9999999999999.
RoundsBelow == {1001}

\* Price.encode: int(value * BASE), truncating
Price_encode(value) == IF value \in RoundsBelow THEN value - 1 ELSE value

\* str.strip() of blanks, as float() does before it reads
RECURSIVE LStrip(_)
LStrip(s) == IF s # <<>> /\ Head(s) = " " THEN LStrip(Tail(s)) ELSE s

RECURSIVE RStrip(_)
RStrip(s) ==
    IF s # <<>> /\ s[Len(s)] = " " THEN RStrip(SubSeq(s, 1, Len(s) - 1)) ELSE s

\* float(s) of a str of digits, blanks, signs and letters that spell no
\* number: blanks around it are dropped, one sign may lead, and what is left
\* must be digits; anything else raises ValueError
float(s) ==
    LET t == RStrip(LStrip(s))
        signed == t # <<>> /\ Head(t) \in {"+", "-"}
        body == IF signed THEN Tail(t) ELSE t
    IN  IF body # <<>> /\ AllDigits(body)
        THEN [raised |-> FALSE,
              value |-> IF signed /\ Head(t) = "-" THEN 0 - StrInt(body)
                        ELSE StrInt(body)]
        ELSE [raised |-> TRUE, value |-> 0]

\* Price.decode: float(value) / BASE
Price_decode(s) == float(s)

NoDate == [y |-> 0, m |-> 0, d |-> 0]

\* pandas.NaT, the date that is none
NaT == [y |-> -1, m |-> -1, d |-> -1]

IsLeap(y) == (y % 4 = 0 /\ y % 100 # 0) \/ y % 400 = 0

DaysIn(y, m) ==
    IF m = 2 THEN (IF IsLeap(y) THEN 29 ELSE 28)
    ELSE IF m \in {4, 6, 9, 11} THEN 30 ELSE 31

ValidDate(y, m, d) == m \in 1..12 /\ d \in 1..DaysIn(y, m)

Pad2(n) == <<Digits[((n \div 10) % 10) + 1], Digits[(n % 10) + 1]>>

\* Timestamp.strftime('%y%m%d')
strftime(date) == Pad2(date.y % 100) \o Pad2(date.m) \o Pad2(date.d)

\* pd.to_datetime of a str, called without a format. Six digits are no ISO
\* 8601 date to pandas, which leaves them to dateutil's parser: it splits
\* them into three two-digit numbers and, not told which is the year, takes
\* the first for the year only when it is above 31, for the day when it is
\* above 12 and for the month otherwise, the last being the year in the two
\* latter cases. A two-digit year is of the century of the present day (the
\* years of DateInputs are far from its pivot, fifty years ahead). The empty
\* str gives NaT and raises nothing. Anything else that makes no date (the
\* model's other date segments hold a letter) raises ValueError.
to_datetime(s) ==
    IF s = <<>> THEN [raised |-> FALSE, value |-> NaT]
    ELSE IF Len(s) = 6 /\ AllDigits(s)
    THEN LET a == StrInt(SubSeq(s, 1, 2))
             b == StrInt(SubSeq(s, 3, 4))
             c == StrInt(SubSeq(s, 5, 6))
             ymd == IF a > 31 THEN [y |-> a, m |-> b, d |-> c]
                    ELSE IF a > 12 THEN [y |-> c, m |-> b, d |-> a]
                    ELSE [y |-> c, m |-> a, d |-> b]
             date == [ymd EXCEPT !.y = 2000 + ymd.y]
         IN  IF ValidDate(date.y, date.m, date.d)
             THEN [raised |-> FALSE, value |-> date]
             ELSE [raised |-> TRUE, value |-> NoDate]
    ELSE [raised |-> TRUE, value |-> NoDate]

\* NaT has no strftime: formatting it raises ValueError
option_symbol(underlying, expiration, call_put, strike) ==
    LET cp == upper(call_put)
        exp == strftime(expiration)
        digits == IntStr(Price_encode(strike))
        padded == Zeros(8 - Len(digits)) \o digits
    IN  IF cp \notin {<<CALL>>, <<PUT>>} \/ expiration = NaT
        THEN [raised |-> TRUE, value |-> <<>>]
        ELSE [raised |-> FALSE, value |-> underlying \o exp \o cp \o padded]

NoParse == [raised |-> TRUE, error |-> "ValueError", underlying |-> <<>>,
            expiration |-> NoDate, call_put |-> <<>>, strike |-> 0]

parse_option_symbol(symbol) ==
    LET strike == Price_decode(FromEnd(symbol, -8, 0))
        call_put == upper(FromEnd(symbol, -9, -8))
        expiration == to_datetime(FromEnd(symbol, -15, -9))
        underlying == upper(UpToEnd(symbol, -15))
    IN  IF strike.raised \/ expiration.raised THEN NoParse
        ELSE [raised |-> FALSE, error |-> "", underlying |-> underlying,
              expiration |-> expiration.value, call_put |-> call_put,
              strike |-> strike.value]

----------------------------------------------------------------------------
(* option.tradeking_cost, option.Leg *)

tradeking_cost(num_legs) == BASE_FEE + PER_LEG * num_legs

\* The one-character flags of a Leg ('C', 'P', 'L', 'S') are kept as the
\* character itself, '' when none is given; these pass between the flag and
\* the str the codec works on.
FlagStr(c) == IF c = "" THEN <<>> ELSE <<c>>

StrFlag(s) == IF s = <<>> THEN "" ELSE s[1]

\* the mutant of NewLegObj whose range stops at strike + price_range
NewLegObj_NoEndpoint(in) ==
    LET given == in.expiration # NoDate /\ in.call_put # "" /\ in.strike # 0
        Made(parsed) ==
          LET symbol == IF given THEN in.symbol ELSE parsed.underlying
              expiration == IF given THEN in.expiration ELSE parsed.expiration
              call_put == IF given THEN FlagStr(in.call_put) ELSE parsed.call_put
              strike == IF given THEN in.strike ELSE parsed.strike
              price_range == Price_encode(in.price_range)
          IN  [raised |-> (~given /\ parsed.raised)
                            \/ option_symbol(symbol, expiration, call_put,
                                             strike).raised,
               leg |-> [call_put |-> StrFlag(upper(call_put)),
                        long_short |-> upper_char(in.long_short),
                        strike |-> Price_encode(strike),
                        tick_size |-> Price_encode(in.tick_size),
                        zero |-> in.zero,
                        start |-> Price_encode(strike) - price_range,
                        stop |-> Price_encode(strike) + price_range,
                        cache |-> NoCache]]
    IN  Made(parse_option_symbol(in.symbol))

\* Leg.__init__(symbol, long_short, expiration, call_put, strike,
\* price_range, tick_size), zero telling whether the premium source is the
\* one that answers 0. An expiration of None is NoDate, a call_put of None
\* is '' and a strike of None is 0: each is as false to all() as the value
\* that stands for it. When one of the three is false the symbol is parsed
\* for all of them, and what was given is dropped; parsing may raise. The
\* symbol is then formatted, which raises for a call_put that is no type,
\* and the flags are put in upper case. leg is the object when nothing was
\* raised.
NewLegObj(in) ==
    LET given == in.expiration # NoDate /\ in.call_put # "" /\ in.strike # 0
        Made(parsed) ==
          LET symbol == IF given THEN in.symbol ELSE parsed.underlying
              expiration == IF given THEN in.expiration ELSE parsed.expiration
              call_put == IF given THEN FlagStr(in.call_put) ELSE parsed.call_put
              strike == IF given THEN in.strike ELSE parsed.strike
              price_range == Price_encode(in.price_range)
          IN  [raised |-> (~given /\ parsed.raised)
                            \/ option_symbol(symbol, expiration, call_put,
                                             strike).raised,
               leg |-> [call_put |-> StrFlag(upper(call_put)),
                        long_short |-> upper_char(in.long_short),
                        strike |-> Price_encode(strike),
                        tick_size |-> Price_encode(in.tick_size),
                        zero |-> in.zero,
                        start |-> Price_encode(strike) - price_range,
                        stop |-> Price_encode(strike) + price_range + 1,
                        cache |-> NoCache]]
    IN  Made(parse_option_symbol(in.symbol))

\* Leg._payoff_func
payoff_func(leg, x) ==
    IF leg.call_put = PUT THEN Max2(leg.strike - x, 0) ELSE Max2(x - leg.strike, 0)

\* Leg.payoff
Leg_payoff(leg, price) ==
    IF leg.long_short = SHORT THEN payoff_func(leg, price) * (-1)
    ELSE payoff_func(leg, price)

\* Leg.payoffs (the getter)
Leg_payoffs(leg) ==
    [p \in PyRange(leg.start, leg.stop, leg.tick_size) |->
        IF leg.long_short = SHORT THEN payoff_func(leg, p) * (-1)
        ELSE payoff_func(leg, p)]

\* Leg.cost (the getter)
Leg_cost(leg) == tradeking_cost(1)

\* the premium function tradeking_premium returns: zero when no tokens were
\* given, else premium, whose request to the market data source blocks
\* until the source answers a quote or raises
premium_func(leg, answer) ==
    IF leg.zero THEN [raised |-> FALSE, value |-> 0]
    ELSE IF answer.answer = "raise" THEN [raised |-> TRUE, value |-> 0]
    ELSE [raised |-> FALSE, value |-> answer.value]

\* Leg.premium (the getter)
Leg_premium(leg, answer) ==
    LET r == premium_func(leg, answer) IN
    IF r.raised THEN r
    ELSE IF leg.long_short = SHORT
         THEN [raised |-> FALSE, value |-> r.value * (-1)]
         ELSE r

\* the getter of a Leg's cached property
LegGetter(leg, name, answer) ==
    CASE name = "payoffs" -> [raised |-> FALSE, value |-> Leg_payoffs(leg)]
      [] name = "cost" -> [raised |-> FALSE, value |-> Leg_cost(leg)]
      [] OTHER -> Leg_premium(leg, answer)

\* cached_property.__get__ on a Leg entered at time t, which is
\* "now = time.time()", as far as it runs without blocking: a hit returns
\* the entry's value; on a miss the getter is called, and the getter of
\* premium with a live source waits on its request, the cache as it was;
\* every other getter returns at once and its value is stored with t
LegGet(heap, l, name, t) ==
    IF CacheHit(heap[l].cache, name, t)
    THEN [heap |-> heap, waits |-> FALSE,
          value |-> heap[l].cache.d[name].value, calls |-> 0]
    ELSE IF name = "premium" /\ ~heap[l].zero
         THEN [heap |-> heap, waits |-> TRUE, value |-> 0, calls |-> 1]
         ELSE LET r == LegGetter(heap[l], name, Unasked) IN
              [heap |-> [heap EXCEPT ![l].cache = CacheStore(@, name, r.value, t)],
               waits |-> FALSE, value |-> r.value, calls |-> 1]

\* LegReturn swallowing the source's error: 0 is stored and returned
LegReturn_Swallow(heap, l, at, answer) ==
    LET r == LegGetter(heap[l], "premium", answer) IN
    [heap |-> [heap EXCEPT ![l].cache = CacheStore(@, "premium", r.value, at)],
     raised |-> FALSE, value |-> r.value]

\* the rest of a __get__ of a Leg's premium that was entered at time at,
\* when the request returns: the source's error leaves __get__ and nothing
\* is stored; its quote is stored in the cache as it is by then, with the
\* time of entry, however long the request took and whatever was stored
\* meanwhile
LegReturn(heap, l, at, answer) ==
    LET r == LegGetter(heap[l], "premium", answer) IN
    IF r.raised
    THEN [heap |-> heap, raised |-> TRUE, value |-> 0]
    ELSE [heap |-> [heap EXCEPT ![l].cache = CacheStore(@, "premium", r.value, at)],
          raised |-> FALSE, value |-> r.value]

\* reset_start_stop dropping the whole cache
reset_start_stop_ClearCache(leg, start, stop) ==
    [leg EXCEPT !.cache = [present |-> leg.cache.present, d |-> <<>>],
                !.start = start,
                !.stop = stop]

\* Leg.reset_start_stop
reset_start_stop(leg, start, stop) ==
    [leg EXCEPT !.cache = IF leg.cache.present /\ "payoffs" \in DOMAIN leg.cache.d
                          THEN CacheDel(leg.cache, "payoffs") ELSE leg.cache,
                !.start = start,
                !.stop = stop]

----------------------------------------------------------------------------
(* option.MultiLeg *)

\* MultiLeg.__init__ with no legs
NewMultiLeg == [legs |-> <<>>, cache |-> NoCache]

\* the loop "payoffs = payoffs.add(leg.payoffs, fill_value=0)" from leg i
\* on, entered at time t; every leg.payoffs is a __get__ of its own
RECURSIVE AddLegCurves(_, _, _, _, _)
AddLegCurves(heap, mlegs, i, acc, t) ==
    IF i > Len(mlegs)
    THEN [heap |-> heap, raised |-> FALSE, waits |-> FALSE, value |-> acc, i |-> 0]
    ELSE LET r == LegGet(heap, mlegs[i], "payoffs", t) IN
         AddLegCurves(r.heap, mlegs, i + 1, SeriesAdd(acc, r.value), t)

\* the loop "leg.reset_start_stop(start, stop)" from leg i on
RECURSIVE ResetLegs(_, _, _, _, _)
ResetLegs(heap, mlegs, i, start, stop) ==
    IF i > Len(mlegs) THEN heap
    ELSE ResetLegs([heap EXCEPT ![mlegs[i]] = reset_start_stop(@, start, stop)],
                   mlegs, i + 1, start, stop)

\* MultiLeg_payoffs taking the largest start for the smallest
MultiLeg_payoffs_MaxStart(heap, mlegs, t) ==
    IF Len(mlegs) = 0
    THEN [heap |-> heap, raised |-> TRUE, waits |-> FALSE, value |-> 0, i |-> 0]
    ELSE LET start == SetMax({ heap[l].start : l \in SeqRange(mlegs) })
             stop == SetMax({ heap[l].stop : l \in SeqRange(mlegs) })
             widened == ResetLegs(heap, mlegs, 1, start, stop)
         IN AddLegCurves(widened, mlegs, 1, EmptySeries, t)

\* MultiLeg.payoffs (the getter); min() of no legs raises
MultiLeg_payoffs(heap, mlegs, t) ==
    IF Len(mlegs) = 0
    THEN [heap |-> heap, raised |-> TRUE, waits |-> FALSE, value |-> 0, i |-> 0]
    ELSE LET start == SetMin({ heap[l].start : l \in SeqRange(mlegs) })
             stop == SetMax({ heap[l].stop : l \in SeqRange(mlegs) })
             widened == ResetLegs(heap, mlegs, 1, start, stop)
         IN AddLegCurves(widened, mlegs, 1, EmptySeries, t)

\* MultiLeg.payoff: sum([leg.payoff(price) for leg in self._legs]), from leg i on
RECURSIVE SumLegPayoff(_, _, _, _)
SumLegPayoff(heap, mlegs, i, price) ==
    IF i > Len(mlegs) THEN 0
    ELSE Leg_payoff(heap[mlegs[i]], price) + SumLegPayoff(heap, mlegs, i + 1, price)

MultiLeg_payoff(heap, mlegs, price) == SumLegPayoff(heap, mlegs, 1, price)

\* MultiLeg.cost (the getter)
MultiLeg_cost(mlegs) == tradeking_cost(Len(mlegs))

\* MultiLeg.premium (the getter): sum([leg.premium for leg in self._legs]),
\* from leg i on with acc the sum so far, at time t. Every leg.premium is a
\* __get__ of its own; the sum stops at the first member whose premium
\* waits on its request
RECURSIVE SumLegPremiums(_, _, _, _, _)
SumLegPremiums(heap, mlegs, i, acc, t) ==
    IF i > Len(mlegs)
    THEN [heap |-> heap, raised |-> FALSE, waits |-> FALSE, value |-> acc, i |-> 0]
    ELSE LET r == LegGet(heap, mlegs[i], "premium", t) IN
         IF r.waits
         THEN [heap |-> r.heap, raised |-> FALSE, waits |-> TRUE,
               value |-> acc, i |-> i]
         ELSE SumLegPremiums(r.heap, mlegs, i + 1, acc + r.value, t)

MultiLeg_premium(heap, mlegs, t) == SumLegPremiums(heap, mlegs, 1, 0, t)

\* the getter of a MultiLeg's cached property, entered at time t
MultiLegGetter(heap, mlegs, name, t) ==
    CASE name = "payoffs" -> MultiLeg_payoffs(heap, mlegs, t)
      [] name = "cost" ->
            [heap |-> heap, raised |-> FALSE, waits |-> FALSE,
             value |-> MultiLeg_cost(mlegs), i |-> 0]
      [] OTHER -> MultiLeg_premium(heap, mlegs, t)

\* cached_property.__get__ on a MultiLeg entered at time t, as far as it
\* runs without blocking: the heap and the MultiLeg's cache after it, and
\* its result, or that it waits on the request of its i-th member with
\* value the sum so far. The MultiLeg's entry is stored with the time of
\* entry
MultiLegGet(heap, ml, name, t) ==
    IF CacheHit(ml.cache, name, t)
    THEN [heap |-> heap, cache |-> ml.cache, raised |-> FALSE, waits |-> FALSE,
          value |-> ml.cache.d[name].value, calls |-> 0, i |-> 0]
    ELSE LET r == MultiLegGetter(heap, ml.legs, name, t) IN
         IF r.raised
         THEN [heap |-> r.heap, cache |-> ml.cache, raised |-> TRUE,
               waits |-> FALSE, value |-> 0, calls |-> 1, i |-> 0]
         ELSE IF r.waits
         THEN [heap |-> r.heap, cache |-> ml.cache, raised |-> FALSE,
               waits |-> TRUE, value |-> r.value, calls |-> 1, i |-> r.i]
         ELSE [heap |-> r.heap, cache |-> CacheStore(ml.cache, name, r.value, t),
               raised |-> FALSE, waits |-> FALSE, value |-> r.value,
               calls |-> 1, i |-> 0]

\* the rest of a __get__ of a MultiLeg's premium, when the request of the
\* member it waits on returns at time t. w is the waiting read: entered at
\* w.at, it asked for its w.i-th member, the Leg w.asked, in a __get__
\* entered at w.asked_at, the sum so far being w.acc. The member's __get__
\* ends as LegReturn; its error ends the sum, and nothing more is stored;
\* else the sum goes on with the members that are there by now, each read
\* at t, and in the end it is stored with w.at
MultiLegReturn(heap, ml, w, answer, t) ==
    LET a == LegReturn(heap, w.asked, w.asked_at, answer) IN
    IF a.raised
    THEN [heap |-> a.heap, cache |-> ml.cache, raised |-> TRUE, waits |-> FALSE,
          value |-> 0, i |-> 0]
    ELSE LET r == SumLegPremiums(a.heap, ml.legs, w.i + 1, w.acc + a.value, t) IN
         IF r.waits
         THEN [heap |-> r.heap, cache |-> ml.cache, raised |-> FALSE,
               waits |-> TRUE, value |-> r.value, i |-> r.i]
         ELSE [heap |-> r.heap,
               cache |-> CacheStore(ml.cache, "premium", r.value, w.at),
               raised |-> FALSE, waits |-> FALSE, value |-> r.value, i |-> 0]

----------------------------------------------------------------------------
(* Operations *)

\* what the last operation was and gave; at is the time at which a read
\* that has ended was entered
Op(op, leg, ml, prop) ==
    [op |-> op, leg |-> leg, ml |-> ml, prop |-> prop,
     raised |-> FALSE, calls |-> 0, value |-> 0, at |-> 0]

\* a read or a plot has ended
Ended(op, leg, ml, prop, raised, calls, value, at) ==
    [op |-> op, leg |-> leg, ml |-> ml, prop |-> prop,
     raised |-> raised, calls |-> calls, value |-> value, at |-> at]

\* a read or a plot of ml (or, ml being "", of the Leg asked) has come to
\* wait on the request of the premium of the Leg asked
Asks(asked, ml) ==
    [op |-> "ask", leg |-> asked, ml |-> ml, prop |-> "premium",
     raised |-> FALSE, calls |-> 0, value |-> 0, at |-> now]

\* the locals of a thread whose read waits
Wait(op, leg, ml, at, i, acc, asked, asked_at, payoffs, cost) ==
    [op |-> op, leg |-> leg, ml |-> ml, at |-> at, i |-> i, acc |-> acc,
     asked |-> asked, asked_at |-> asked_at, payoffs |-> payoffs, cost |-> cost]

\* the clock moves on
Tick(d) ==
    /\ now + d <= MaxTime
    /\ now' = now + d
    /\ last' = Op("tick", 0, "", "")
    /\ UNCHANGED <<waiting, thr, codec, oq, legs, mls, ttl>>

\* leg = Leg(...)
NewLeg(in) ==
    LET made == NewLegObj(in) IN
    /\ Len(legs) < MaxLegs
    /\ legs' = IF made.raised THEN legs ELSE Append(legs, made.leg)
    /\ last' = [Op("new_leg", IF made.raised THEN 0 ELSE Len(legs) + 1, "", "")
                  EXCEPT !.raised = made.raised]
    /\ UNCHANGED <<waiting, thr, codec, oq, mls, now, ttl>>

\* MultiLeg.add_leg(leg) with a Leg instance
add_leg(m, l) ==
    /\ Len(mls[m].legs) < MaxMembers
    /\ mls' = [mls EXCEPT ![m].legs = Append(@, l)]
    /\ last' = Op("add_leg", l, m, "")
    /\ UNCHANGED <<waiting, thr, codec, oq, legs, now, ttl>>

\* MultiLeg.add_leg(symbol, ...): the Leg is constructed, then appended;
\* nothing is appended when the construction raises
add_leg_symbol(m, in) ==
    LET made == NewLegObj(in) IN
    /\ Len(legs) < MaxLegs
    /\ Len(mls[m].legs) < MaxMembers
    /\ legs' = IF made.raised THEN legs ELSE Append(legs, made.leg)
    /\ mls' = IF made.raised THEN mls
              ELSE [mls EXCEPT ![m].legs = Append(@, Len(legs) + 1)]
    /\ last' = [Op("add_leg", IF made.raised THEN 0 ELSE Len(legs) + 1, m, "")
                  EXCEPT !.raised = made.raised]
    /\ UNCHANGED <<waiting, thr, codec, oq, now, ttl>>

\* leg.payoffs, leg.cost, leg.premium in thread r: the read ends at once,
\* or it waits on the request to the premium source
ReadLeg(r, l, name) ==
    /\ waiting[r].op = "idle"
    /\ \E g \in {LegGet(legs, l, name, now)} :
          /\ legs' = g.heap
          /\ waiting' = [waiting EXCEPT ![r] =
                           IF g.waits
                           THEN Wait("read", l, "", now, 0, 0, l, now, <<>>, 0)
                           ELSE NoRead]
          /\ last' = IF g.waits THEN Asks(l, "")
                     ELSE Ended("read", l, "", name, FALSE, g.calls, g.value, now)
    /\ UNCHANGED <<thr, codec, oq, mls, now, ttl>>

\* multileg.payoffs, multileg.cost, multileg.premium in thread r
ReadMultiLeg(r, m, name) ==
    /\ waiting[r].op = "idle"
    /\ \E g \in {MultiLegGet(legs, mls[m], name, now)} :
          /\ legs' = g.heap
          /\ mls' = [mls EXCEPT ![m].cache = g.cache]
          /\ waiting' = [waiting EXCEPT ![r] =
                           IF g.waits
                           THEN Wait("read", 0, m, now, g.i, g.value,
                                     mls[m].legs[g.i], now, <<>>, 0)
                           ELSE NoRead]
          /\ last' = IF g.waits THEN Asks(mls[m].legs[g.i], m)
                     ELSE Ended("read", 0, m, name, g.raised, g.calls, g.value, now)
    /\ UNCHANGED <<thr, codec, oq, now, ttl>>

\* del leg._cache[name]
InvalidateLeg(l, name) ==
    /\ legs[l].cache.present
    /\ name \in DOMAIN legs[l].cache.d
    /\ legs' = [legs EXCEPT ![l].cache = CacheDel(@, name)]
    /\ last' = Op("invalidate", l, "", name)
    /\ UNCHANGED <<waiting, thr, codec, oq, mls, now, ttl>>

\* del multileg._cache[name]
InvalidateMultiLeg(m, name) ==
    /\ mls[m].cache.present
    /\ name \in DOMAIN mls[m].cache.d
    /\ mls' = [mls EXCEPT ![m].cache = CacheDel(@, name)]
    /\ last' = Op("invalidate", 0, m, name)
    /\ UNCHANGED <<waiting, thr, codec, oq, legs, now, ttl>>

\* leg.reset_start_stop(start, stop), called directly
ResetLeg(l, start, stop) ==
    /\ legs' = [legs EXCEPT ![l] = reset_start_stop(@, start, stop)]
    /\ last' = [Op("reset", l, "", "payoffs") EXCEPT !.value = <<start, stop>>]
    /\ UNCHANGED <<waiting, thr, codec, oq, mls, now, ttl>>

\* option.plot, bound as Leg.plot and MultiLeg.plot. It reads option.payoffs,
\* then option.cost when include_cost and option.premium when
\* include_premium, each through its cache, takes both from every point of
\* the curve, and hands the curve in dollars, with the limits of its axis, to
\* pandas to draw. A dollar amount being the count of its thousandths,
\* Price.decode leaves the count as it is, and ypad, 5 dollars, is YPAD.
YPAD == 5000

\* the Series and ylim that are drawn
plot_series(payoffs, cost, premium) ==
    LET curve == [p \in DOMAIN payoffs |-> payoffs[p] - cost - premium]
        drawn == {curve[p] : p \in DOMAIN curve}
    IN  [curve |-> curve,
         ylim |-> <<SetMin(drawn) - YPAD, SetMax(drawn) + YPAD>>]

\* a read that is not made
NotRead(heap, cache) ==
    [heap |-> heap, cache |-> cache, raised |-> FALSE, waits |-> FALSE,
     value |-> 0, calls |-> 0, i |-> 0]

\* plot(option) of a MultiLeg, entered at time t, as far as it runs without
\* blocking: the heap and the MultiLeg's cache after its reads, and what is
\* drawn, or that it waits in option.premium with option.payoffs and
\* option.cost read. option.payoffs, option.cost and option.premium are
\* reads of their own; the first read that raises ends the plot
MultiLeg_plot(heap, ml, include_cost, include_premium, t) ==
    LET Drawn(payoffs, cost, premium) ==
          [heap |-> premium.heap, cache |-> premium.cache,
           raised |-> premium.raised, waits |-> premium.waits,
           payoffs |-> payoffs.value, cost |-> cost.value,
           acc |-> premium.value, i |-> premium.i,
           value |-> IF premium.raised \/ premium.waits THEN 0
                     ELSE plot_series(payoffs.value, cost.value, premium.value)]
        AfterCost(payoffs, cost) ==
          Drawn(payoffs, cost,
                IF include_premium
                THEN MultiLegGet(cost.heap, [ml EXCEPT !.cache = cost.cache],
                                 "premium", t)
                ELSE NotRead(cost.heap, cost.cache))
        AfterPayoffs(payoffs) ==
          IF payoffs.raised
          THEN [heap |-> payoffs.heap, cache |-> payoffs.cache,
                raised |-> TRUE, waits |-> FALSE, payoffs |-> <<>>, cost |-> 0,
                acc |-> 0, i |-> 0, value |-> 0]
          ELSE AfterCost(payoffs,
                         IF include_cost
                         THEN MultiLegGet(payoffs.heap,
                                          [ml EXCEPT !.cache = payoffs.cache],
                                          "cost", t)
                         ELSE NotRead(payoffs.heap, payoffs.cache))
    IN  AfterPayoffs(MultiLegGet(heap, ml, "payoffs", t))

\* plot(option) of a Leg, entered at time t, as far as it runs without
\* blocking
Leg_plot(heap, l, include_cost, include_premium, t) ==
    LET Drawn(payoffs, cost, premium) ==
          [heap |-> premium.heap, raised |-> FALSE, waits |-> premium.waits,
           payoffs |-> payoffs.value, cost |-> cost.value,
           value |-> IF premium.waits THEN 0
                     ELSE plot_series(payoffs.value, cost.value, premium.value)]
        AfterCost(payoffs, cost) ==
          Drawn(payoffs, cost,
                IF include_premium
                THEN LegGet(cost.heap, l, "premium", t)
                ELSE NotRead(cost.heap, <<>>))
        AfterPayoffs(payoffs) ==
          AfterCost(payoffs,
                    IF include_cost
                    THEN LegGet(payoffs.heap, l, "cost", t)
                    ELSE NotRead(payoffs.heap, <<>>))
    IN  AfterPayoffs(LegGet(heap, l, "payoffs", t))

\* multileg.plot(include_cost=..., include_premium=...) in thread r
PlotMultiLeg(r, m, include_cost, include_premium) ==
    /\ waiting[r].op = "idle"
    /\ \E g \in {MultiLeg_plot(legs, mls[m], include_cost, include_premium, now)} :
          /\ legs' = g.heap
          /\ mls' = [mls EXCEPT ![m].cache = g.cache]
          /\ waiting' = [waiting EXCEPT ![r] =
                           IF g.waits
                           THEN Wait("plot", 0, m, now, g.i, g.acc,
                                     mls[m].legs[g.i], now, g.payoffs, g.cost)
                           ELSE NoRead]
          /\ last' = IF g.waits THEN Asks(mls[m].legs[g.i], m)
                     ELSE Ended("plot", 0, m, "", g.raised, 0, g.value, now)
    /\ UNCHANGED <<thr, codec, oq, now, ttl>>

\* leg.plot(include_cost=..., include_premium=...) in thread r
PlotLeg(r, l, include_cost, include_premium) ==
    /\ waiting[r].op = "idle"
    /\ \E g \in {Leg_plot(legs, l, include_cost, include_premium, now)} :
          /\ legs' = g.heap
          /\ waiting' = [waiting EXCEPT ![r] =
                           IF g.waits
                           THEN Wait("plot", l, "", now, 0, 0, l, now,
                                     g.payoffs, g.cost)
                           ELSE NoRead]
          /\ last' = IF g.waits THEN Asks(l, "")
                     ELSE Ended("plot", l, "", "", FALSE, 0, g.value, now)
    /\ UNCHANGED <<thr, codec, oq, mls, now, ttl>>

\* the premium of the read that waits as w, when its request returns at
\* time t: the heap and the MultiLegs after it, and the premium, or that the
\* read waits again, on its i-th member
PremiumReturn(heap, ms, w, answer, t) ==
    IF w.ml = ""
    THEN LET a == LegReturn(heap, w.asked, w.asked_at, answer) IN
         [heap |-> a.heap, mls |-> ms, raised |-> a.raised, waits |-> FALSE,
          value |-> a.value, i |-> 0]
    ELSE LET a == MultiLegReturn(heap, ms[w.ml], w, answer, t) IN
         [heap |-> a.heap, mls |-> [ms EXCEPT ![w.ml].cache = a.cache],
          raised |-> a.raised, waits |-> a.waits, value |-> a.value, i |-> a.i]

\* the request that thread r waits on returns with the source's answer:
\* the read, or the plot, goes on to its end or to its next request
RequestReturns(r, answer) ==
    /\ waiting[r].op # "idle"
    /\ \E w \in {waiting[r]} :
       \E a \in {PremiumReturn(legs, mls, w, answer, now)} :
          /\ legs' = a.heap
          /\ mls' = a.mls
          /\ waiting' = [waiting EXCEPT ![r] =
                           IF a.waits
                           THEN Wait(w.op, w.leg, w.ml, w.at, a.i, a.value,
                                     mls[w.ml].legs[a.i], now, w.payoffs, w.cost)
                           ELSE NoRead]
          /\ last' = IF a.waits THEN Asks(mls[w.ml].legs[a.i], w.ml)
                     ELSE IF w.op = "read"
                     THEN Ended("read", w.leg, w.ml, "premium", a.raised, 1,
                                a.value, w.at)
                     ELSE Ended("plot", w.leg, w.ml, "", a.raised, 0,
                                IF a.raised THEN 0
                                ELSE plot_series(w.payoffs, w.cost, a.value),
                                w.at)
    /\ UNCHANGED <<thr, codec, oq, now, ttl>>

----------------------------------------------------------------------------
(* Spec: one MultiLeg is built from Legs and symbols, extended and read by  *)
(* two threads, all within the TTL of whatever is cached; every premium    *)
(* source answers its quote.                                               *)

Init ==
    /\ legs = <<>>
    /\ mls = [m \in {"m1"} |-> NewMultiLeg]
    /\ now = 0
    /\ ttl = DEFAULT_TTL
    /\ last = Op("init", 0, "", "")
    /\ waiting = [r \in Readers |-> NoRead]
    /\ thr = <<>>
    /\ codec = <<>>
    /\ oq = <<>>

Next ==
    \/ \E m \in DOMAIN mls, in \in LegInputs \cup OddLegInputs :
          add_leg_symbol(m, in)
    \/ \E r \in Readers, l \in DOMAIN legs : ReadLeg(r, l, "payoffs")
    \/ \E r \in Readers, m \in DOMAIN mls, name \in Props : ReadMultiLeg(r, m, name)
    \/ \E r \in Readers : RequestReturns(r, Quote(QUOTE))

Spec == Init /\ [][Next]_vars

(* SpecShare: two MultiLegs are given Leg instances and their payoffs read. *)

InitShare ==
    /\ legs = <<>>
    /\ mls = [m \in {"m1", "m2"} |-> NewMultiLeg]
    /\ now = 0
    /\ ttl = DEFAULT_TTL
    /\ last = Op("init", 0, "", "")
    /\ waiting = [r \in Readers |-> NoRead]
    /\ thr = <<>>
    /\ codec = <<>>
    /\ oq = <<>>

NextShare ==
    \/ \E in \in LegInputs \cup OddLegInputs : NewLeg(in)
    \/ \E m \in DOMAIN mls, l \in DOMAIN legs : add_leg(m, l)
    \/ \E r \in Readers, m \in DOMAIN mls : ReadMultiLeg(r, m, "payoffs")

SpecShare == InitShare /\ [][NextShare]_vars

(* SpecCache: one Leg in one MultiLeg. Two threads read the payoffs, cost    *)
(* and premium of both; entries are deleted and the Leg is reset as the    *)
(* clock moves on, also while a read of the premium waits on its request.  *)

ResetRanges == { <<1, 8>> }

InitCache ==
    /\ \E in \in LegInputs : legs = <<NewLegObj(in).leg>>
    /\ mls = [m \in {"m1"} |-> [NewMultiLeg EXCEPT !.legs = <<1>>]]
    /\ now = 0
    /\ ttl \in TTLs
    /\ last = Op("init", 0, "", "")
    /\ waiting = [r \in Readers |-> NoRead]
    /\ thr = <<>>
    /\ codec = <<>>
    /\ oq = <<>>

NextCache ==
    \/ \E d \in ClockSteps : Tick(d)
    \/ \E r \in Readers, l \in DOMAIN legs, name \in Props : ReadLeg(r, l, name)
    \/ \E r \in Readers, m \in DOMAIN mls, name \in Props : ReadMultiLeg(r, m, name)
    \/ \E r \in Readers, answer \in Answers : RequestReturns(r, answer)
    \/ \E l \in DOMAIN legs, name \in Props : InvalidateLeg(l, name)
    \/ \E m \in DOMAIN mls, name \in Props : InvalidateMultiLeg(m, name)
    \/ \E l \in DOMAIN legs, r \in ResetRanges : ResetLeg(l, r[1], r[2])

SpecCache == InitCache /\ [][NextCache]_vars

(* SpecClock: two Legs in one MultiLeg; their premiums and the strategy's   *)
(* are read and the Legs and the strategy are plotted by two threads, and  *)
(* the clock moves on between the reads and while their requests to the    *)
(* premium sources are under way.                                          *)

\* the two Legs, a long one and a short one: the long Leg has a live
\* premium source, and is the first or the second member when the short
\* Leg has none
ClockLegInputs ==
    { in \in CacheLegInputs \X CacheLegInputs :
         /\ in[1].long_short # in[2].long_short
         /\ ~in[1].zero \/ ~in[2].zero
         /\ in[1].long_short = LONG \/ in[1].zero }

InitClock ==
    /\ \E in \in ClockLegInputs :
          legs = <<NewLegObj(in[1]).leg, NewLegObj(in[2]).leg>>
    /\ mls = [m \in {"m1"} |-> [NewMultiLeg EXCEPT !.legs = <<1, 2>>]]
    /\ now = 0
    /\ ttl = DEFAULT_TTL
    /\ last = Op("init", 0, "", "")
    /\ waiting = [r \in Readers |-> NoRead]
    /\ thr = <<>>
    /\ codec = <<>>
    /\ oq = <<>>

NextClock ==
    \/ \E d \in ClockSteps : Tick(d)
    \/ \E r \in Readers, l \in DOMAIN legs : ReadLeg(r, l, "premium")
    \/ \E r \in Readers, m \in DOMAIN mls : ReadMultiLeg(r, m, "premium")
    \/ \E r \in Readers, m \in DOMAIN mls : PlotMultiLeg(r, m, TRUE, TRUE)
    \/ \E r \in Readers, l \in DOMAIN legs : PlotLeg(r, l, TRUE, TRUE)
    \/ \E r \in Readers, answer \in Answers : RequestReturns(r, answer)

SpecClock == InitClock /\ [][NextClock]_vars

----------------------------------------------------------------------------
(* SpecConc: threads read cached properties of one MultiLeg and its Legs    *)
(* at the same time. A step is one access to the shared objects; the       *)
(* interpreter may switch threads between any two of them.                 *)

NumThreads == 2
Threads == 1..NumThreads

IdleThread ==
    [pc |-> "idle", cls |-> "", leg |-> 0, ml |-> "", prop |-> "", i |-> 0,
     start |-> 0, stop |-> 0, acc |-> <<>>, value |-> 0, orphan |-> FALSE,
     raised |-> FALSE]

\* the Leg a thread's step is about: the Leg read, or member i of the MultiLeg
CurLeg(T) == IF T.cls = "Leg" THEN T.leg ELSE mls[T.ml].legs[T.i]

\* the threads that hold a reference to Leg l's _cache dictionary
HoldsLegDict(u, l) ==
    \/ thr[u].pc = "store" /\ thr[u].cls = "Leg" /\ thr[u].leg = l
    \/ thr[u].pc = "in_store" /\ mls[thr[u].ml].legs[thr[u].i] = l

HoldsMultiLegDict(u, m) ==
    thr[u].pc = "store" /\ thr[u].cls = "MultiLeg" /\ thr[u].ml = m

\* a thread starts to read a cached property: now = time.time()
Begin(t, cls, l, m, name) ==
    /\ thr[t].pc \in {"idle", "done"}
    /\ thr' = [thr EXCEPT ![t] = [IdleThread EXCEPT !.pc = "try", !.cls = cls,
                                     !.leg = l, !.ml = m, !.prop = name]]
    /\ UNCHANGED <<legs, mls, now, ttl, last, waiting, codec, oq>>

\* __get__: value, last_update = inst._cache[self.__name__], and the TTL test
Try(t) ==
    LET T == thr[t]
        c == IF T.cls = "Leg" THEN legs[T.leg].cache ELSE mls[T.ml].cache
    IN /\ T.pc = "try"
       /\ thr' = [thr EXCEPT ![t] =
             IF CacheHit(c, T.prop, now)
             THEN [T EXCEPT !.pc = "done", !.value = c.d[T.prop].value]
             ELSE [T EXCEPT !.pc = CASE T.prop = "cost" -> "cost"
                                     [] T.cls = "Leg" -> "lp_start"
                                     [] OTHER -> "mp_min"]]
       /\ UNCHANGED <<legs, mls, now, ttl, last, waiting, codec, oq>>

\* the getter of cost: self._cost_func(1), self._cost_func(len(self._legs))
Cost(t) ==
    LET T == thr[t] IN
    /\ T.pc = "cost"
    /\ thr' = [thr EXCEPT ![t] =
          [T EXCEPT !.pc = "load_cache",
                    !.value = IF T.cls = "Leg" THEN Leg_cost(legs[T.leg])
                              ELSE MultiLeg_cost(mls[T.ml].legs)]]
    /\ UNCHANGED <<legs, mls, now, ttl, last, waiting, codec, oq>>

\* Leg.payoffs: range(self._start, ...) loads self._start
LegStart(t) ==
    LET T == thr[t] IN
    /\ T.pc \in {"lp_start", "in_start"}
    /\ thr' = [thr EXCEPT ![t] =
          [T EXCEPT !.pc = IF T.pc = "lp_start" THEN "lp_stop" ELSE "in_stop",
                    !.start = legs[CurLeg(T)].start]]
    /\ UNCHANGED <<legs, mls, now, ttl, last, waiting, codec, oq>>

\* Leg.payoffs: ... then self._stop, and the curve is computed
LegStop(t) ==
    LET T == thr[t]
        leg == [legs[CurLeg(T)] EXCEPT !.start = T.start]
    IN /\ T.pc \in {"lp_stop", "in_stop"}
       /\ thr' = [thr EXCEPT ![t] =
             [T EXCEPT !.pc = IF T.pc = "lp_stop" THEN "load_cache" ELSE "in_load",
                       !.stop = leg.stop,
                       !.value = Leg_payoffs(leg)]]
       /\ UNCHANGED <<legs, mls, now, ttl, last, waiting, codec, oq>>

\* __get__: try: cache = inst._cache
LoadCache(t) ==
    LET T == thr[t]
        c == IF T.pc = "in_load" \/ T.cls = "Leg" THEN legs[CurLeg(T)].cache
             ELSE mls[T.ml].cache
    IN /\ T.pc \in {"load_cache", "in_load"}
       /\ thr' = [thr EXCEPT ![t] =
             [T EXCEPT !.pc = IF T.pc = "load_cache"
                              THEN (IF c.present THEN "store" ELSE "create")
                              ELSE (IF c.present THEN "in_store" ELSE "in_create"),
                       !.orphan = FALSE]]
       /\ UNCHANGED <<legs, mls, now, ttl, last, waiting, codec, oq>>

\* __get__: except AttributeError: cache = inst._cache = {}; a dictionary
\* another thread installed meanwhile is replaced, and who holds it keeps it
CreateCache(t) ==
    LET T == thr[t]
        onLeg == T.pc = "in_create" \/ T.cls = "Leg"
        l == CurLeg(T)
    IN /\ T.pc \in {"create", "in_create"}
       /\ IF onLeg
          THEN /\ legs' = [legs EXCEPT ![l].cache = [present |-> TRUE, d |-> <<>>]]
               /\ mls' = mls
          ELSE /\ mls' = [mls EXCEPT ![T.ml].cache = [present |-> TRUE, d |-> <<>>]]
               /\ legs' = legs
       /\ thr' = [u \in Threads |->
             IF u = t
             THEN [T EXCEPT !.pc = IF T.pc = "create" THEN "store" ELSE "in_store"]
             ELSE IF (onLeg /\ HoldsLegDict(u, l)) \/ (~onLeg /\ HoldsMultiLegDict(u, T.ml))
                  THEN [thr[u] EXCEPT !.orphan = TRUE]
                  ELSE thr[u]]
       /\ UNCHANGED <<now, ttl, last, waiting, codec, oq>>

\* __get__: cache[self.__name__] = (value, now), and return value
Store(t) ==
    LET T == thr[t] IN
    /\ T.pc = "store"
    /\ IF T.orphan THEN UNCHANGED <<legs, mls>>
       ELSE IF T.cls = "Leg"
            THEN /\ legs' = [legs EXCEPT ![T.leg].cache = CacheStore(@, T.prop, T.value, now)]
                 /\ mls' = mls
            ELSE /\ mls' = [mls EXCEPT ![T.ml].cache = CacheStore(@, T.prop, T.value, now)]
                 /\ legs' = legs
    /\ thr' = [thr EXCEPT ![t] = [T EXCEPT !.pc = "done"]]
    /\ UNCHANGED <<now, ttl, last, waiting, codec, oq>>

\* MultiLeg.payoffs: start = min([leg._start for leg in self._legs])
MpMin(t) ==
    LET T == thr[t] IN
    /\ T.pc = "mp_min"
    /\ thr' = [thr EXCEPT ![t] =
          [T EXCEPT !.pc = "mp_max",
                    !.start = SetMin({ legs[l].start : l \in SeqRange(mls[T.ml].legs) })]]
    /\ UNCHANGED <<legs, mls, now, ttl, last, waiting, codec, oq>>

\* MultiLeg.payoffs: stop = max([leg._stop for leg in self._legs])
MpMax(t) ==
    LET T == thr[t] IN
    /\ T.pc = "mp_max"
    /\ thr' = [thr EXCEPT ![t] =
          [T EXCEPT !.pc = "rs_check", !.i = 1,
                    !.stop = SetMax({ legs[l].stop : l \in SeqRange(mls[T.ml].legs) })]]
    /\ UNCHANGED <<legs, mls, now, ttl, last, waiting, codec, oq>>

\* reset_start_stop: if hasattr(self, '_cache') and 'payoffs' in self._cache
RsCheck(t) ==
    LET T == thr[t] IN
    /\ T.pc = "rs_check"
    /\ thr' = [thr EXCEPT ![t] =
          [T EXCEPT !.pc = IF legs[CurLeg(T)].cache.present
                                /\ "payoffs" \in DOMAIN legs[CurLeg(T)].cache.d
                           THEN "rs_del" ELSE "rs_start"]]
    /\ UNCHANGED <<legs, mls, now, ttl, last, waiting, codec, oq>>

\* reset_start_stop: del self._cache['payoffs']; a KeyError when the entry
\* has gone since the test leaves the getter and the read
RsDel(t) ==
    LET T == thr[t]
        l == CurLeg(T)
    IN /\ T.pc = "rs_del"
       /\ IF "payoffs" \in DOMAIN legs[l].cache.d
          THEN /\ legs' = [legs EXCEPT ![l].cache = CacheDel(@, "payoffs")]
               /\ thr' = [thr EXCEPT ![t] = [T EXCEPT !.pc = "rs_start"]]
          ELSE /\ legs' = legs
               /\ thr' = [thr EXCEPT ![t] = [T EXCEPT !.pc = "done", !.raised = TRUE]]
       /\ UNCHANGED <<mls, now, ttl, last, waiting, codec, oq>>

\* reset_start_stop: self._start = start
RsStart(t) ==
    LET T == thr[t] IN
    /\ T.pc = "rs_start"
    /\ legs' = [legs EXCEPT ![CurLeg(T)].start = T.start]
    /\ thr' = [thr EXCEPT ![t] = [T EXCEPT !.pc = "rs_stop"]]
    /\ UNCHANGED <<mls, now, ttl, last, waiting, codec, oq>>

\* reset_start_stop: self._stop = stop; then the next leg, or the sum
RsStop(t) ==
    LET T == thr[t] IN
    /\ T.pc = "rs_stop"
    /\ legs' = [legs EXCEPT ![CurLeg(T)].stop = T.stop]
    /\ thr' = [thr EXCEPT ![t] =
          IF T.i < Len(mls[T.ml].legs)
          THEN [T EXCEPT !.pc = "rs_check", !.i = T.i + 1]
          ELSE [T EXCEPT !.pc = "in_try", !.i = 1, !.acc = EmptySeries]]
    /\ UNCHANGED <<mls, now, ttl, last, waiting, codec, oq>>

\* after member i's curve v is added: the next leg, or the getter returns
AfterLeg(T, v) ==
    LET acc == SeriesAdd(T.acc, v) IN
    IF T.i < Len(mls[T.ml].legs)
    THEN [T EXCEPT !.pc = "in_try", !.i = T.i + 1, !.acc = acc, !.value = 0]
    ELSE [T EXCEPT !.pc = "load_cache", !.acc = EmptySeries, !.value = acc]

\* MultiLeg.payoffs: payoffs.add(leg.payoffs, ...): __get__ on the member leg
InTry(t) ==
    LET T == thr[t]
        c == legs[CurLeg(T)].cache
    IN /\ T.pc = "in_try"
       /\ thr' = [thr EXCEPT ![t] =
             IF CacheHit(c, "payoffs", now)
             THEN AfterLeg(T, c.d["payoffs"].value)
             ELSE [T EXCEPT !.pc = "in_start"]]
       /\ UNCHANGED <<legs, mls, now, ttl, last, waiting, codec, oq>>

\* the member leg's __get__ stores its curve, which is added to the sum
InStore(t) ==
    LET T == thr[t] IN
    /\ T.pc = "in_store"
    /\ legs' = IF T.orphan THEN legs
               ELSE [legs EXCEPT ![CurLeg(T)].cache = CacheStore(@, "payoffs", T.value, now)]
    /\ thr' = [thr EXCEPT ![t] = AfterLeg(T, T.value)]
    /\ UNCHANGED <<mls, now, ttl, last, waiting, codec, oq>>

ConcReads ==
    { <<"Leg", 1, "", "payoffs">>, <<"Leg", 1, "", "cost">>,
      <<"MultiLeg", 0, "m1", "payoffs">>, <<"MultiLeg", 0, "m1", "cost">> }

InitConc ==
    /\ legs = << NewLegObj(CHOOSE in \in LegInputs : in.call_put = CALL).leg,
                 NewLegObj(CHOOSE in \in LegInputs : in.call_put = PUT).leg >>
    /\ mls = [m \in {"m1"} |-> [NewMultiLeg EXCEPT !.legs = <<1, 2>>]]
    /\ now = 0
    /\ ttl = DEFAULT_TTL
    /\ last = Op("init", 0, "", "")
    /\ waiting = [r \in Readers |-> NoRead]
    /\ thr = [t \in Threads |-> IdleThread]
    /\ codec = <<>>
    /\ oq = <<>>

NextConc ==
    \E t \in Threads :
       \/ \E r \in ConcReads : Begin(t, r[1], r[2], r[3], r[4])
       \/ Try(t)
       \/ Cost(t)
       \/ LegStart(t)
       \/ LegStop(t)
       \/ LoadCache(t)
       \/ CreateCache(t)
       \/ Store(t)
       \/ MpMin(t)
       \/ MpMax(t)
       \/ RsCheck(t)
       \/ RsDel(t)
       \/ RsStart(t)
       \/ RsStop(t)
       \/ InTry(t)
       \/ InStore(t)

SpecConc == InitConc /\ [][NextConc]_vars

----------------------------------------------------------------------------
(* The parts of a symbol that callers pass, and the codec at work *)

\* the symbol parts a caller passes
UnderlyingInputs == {<<"F">>, <<"I", "B", "M">>}

DateInputs == {[y |-> 2016, m |-> 6, d |-> 17], [y |-> 2016, m |-> 6, d |-> 16],
               [y |-> 2010, m |-> 6, d |-> 17], [y |-> 2031, m |-> 6, d |-> 17],
               [y |-> 2032, m |-> 6, d |-> 17]}

TypeInputs == {<<CALL>>, <<PUT>>}

\* strikes, in thousandths of a dollar: 0.0, 0.5, 1.001, 150.0, 150.5 and
\* 100000.0
StrikeInputs == {0, 500, 1001, 150000, 150500, 100000000}

CodecInputs ==
    [underlying : UnderlyingInputs, expiration : DateInputs,
     call_put : TypeInputs, strike : StrikeInputs]

\* symbol = option_symbol(underlying, expiration, call_put, strike)
FormatSymbol ==
    /\ codec.pc = "in"
    /\ LET r == option_symbol(codec.args.underlying, codec.args.expiration,
                              codec.args.call_put, codec.args.strike)
       IN  codec' = [codec EXCEPT !.pc = IF r.raised THEN "raised" ELSE "formatted",
                                  !.symbol = r.value]
    /\ UNCHANGED <<legs, mls, now, ttl, last, waiting, thr, oq>>

\* parse_option_symbol(symbol)
ParseSymbol ==
    /\ codec.pc = "formatted"
    /\ codec' = [codec EXCEPT !.pc = "parsed",
                              !.out = parse_option_symbol(codec.symbol)]
    /\ UNCHANGED <<legs, mls, now, ttl, last, waiting, thr, oq>>

(* SpecCodec: the parts of a symbol are formatted and the symbol parsed. *)

InitCodec ==
    /\ legs = <<>>
    /\ mls = [m \in {"m1"} |-> NewMultiLeg]
    /\ now = 0
    /\ ttl = DEFAULT_TTL
    /\ last = Op("init", 0, "", "")
    /\ waiting = [r \in Readers |-> NoRead]
    /\ thr = <<>>
    /\ \E in \in CodecInputs :
          codec = [pc |-> "in", args |-> in, symbol |-> <<>>, out |-> NoParse]
    /\ oq = <<>>

NextCodec ==
    \/ FormatSymbol
    \/ ParseSymbol

SpecCodec == InitCodec /\ [][NextCodec]_vars

(* SpecParse: parse_option_symbol is handed a str that may be no symbol. *)

\* date segments: two dates, a 31st of June, and two with letters
DateSegments ==
    {<<"3", "2", "0", "6", "1", "7">>, <<"3", "3", "1", "2", "3", "1">>,
     <<"3", "1", "0", "6", "1", "7">>, <<"X", "X", "X", "X", "X", "X">>,
     <<"3", "2", "0", "6", "X", "7">>}

\* strike segments: eight digits, and eight characters that are not
StrikeSegments ==
    {<<"0", "0", "1", "5", "0", "0", "0", "0">>,
     <<" ", " ", "1", "5", "0", "0", "0", "0">>,
     <<"+", "0", "1", "5", "0", "0", "0", "0">>,
     <<"-", "0", "1", "5", "0", "0", "0", "0">>,
     <<"X", "X", "1", "5", "0", "0", "0", "0">>,
     <<"0", "0", "1", "5", " ", "0", "0", "0">>}

FullSymbols ==
    {u \o d \o t \o k : u \in {<<>>, <<"F">>}, d \in DateSegments,
                        t \in TypeInputs, k \in StrikeSegments}

\* the last n characters of s
Suffix(s, n) == SubSeq(s, Len(s) - n + 1, Len(s))

\* strs of fewer than 15 characters: the tails of a type and a strike
\* segment, which reach no date segment
ShortSymbols ==
    UNION {{Suffix(t \o k, n) : n \in 0..Len(t \o k)} :
              t \in TypeInputs, k \in StrikeSegments}

SymbolInputs == FullSymbols \cup ShortSymbols

\* parse_option_symbol(symbol) of a str a caller made up
ParseGiven ==
    /\ codec.pc = "given"
    /\ codec' = [codec EXCEPT !.pc = "parsed",
                              !.out = parse_option_symbol(codec.symbol)]
    /\ UNCHANGED <<legs, mls, now, ttl, last, waiting, thr, oq>>

InitParse ==
    /\ legs = <<>>
    /\ mls = [m \in {"m1"} |-> NewMultiLeg]
    /\ now = 0
    /\ ttl = DEFAULT_TTL
    /\ last = Op("init", 0, "", "")
    /\ waiting = [r \in Readers |-> NoRead]
    /\ thr = <<>>
    /\ \E sym \in SymbolInputs :
          codec = [pc |-> "given", symbol |-> sym, out |-> NoParse]
    /\ oq = <<>>

NextParse == ParseGiven

SpecParse == InitParse /\ [][NextParse]_vars

----------------------------------------------------------------------------
(* api.OptionQuery *)

\* str.lower(), character by character
lower_char(c) ==
    IF \E i \in DOMAIN Upper : Upper[i] = c
    THEN Lower[CHOOSE i \in DOMAIN Upper : Upper[i] = c]
    ELSE c

RECURSIVE lower(_)
lower(s) == IF s = <<>> THEN <<>> ELSE <<lower_char(Head(s))>> \o lower(Tail(s))

\* str.split(): the runs of characters between blanks, in order
RECURSIVE SplitFrom(_, _, _)
SplitFrom(s, word, words) ==
    LET done == IF word = <<>> THEN words ELSE Append(words, word)
    IN  IF s = <<>> THEN done
        ELSE IF Head(s) = " " THEN SplitFrom(Tail(s), <<>>, done)
        ELSE SplitFrom(Tail(s), Append(word, Head(s)), words)

split(s) == SplitFrom(s, <<>>, <<>>)

FIELDS ==
    {<<"s", "t", "r", "i", "k", "e", "p", "r", "i", "c", "e">>,
     <<"x", "d", "a", "t", "e">>,
     <<"x", "m", "o", "n", "t", "h">>,
     <<"x", "y", "e", "a", "r">>,
     <<"p", "u", "t", "_", "c", "a", "l", "l">>,
     <<"u", "n", "i", "q", "u", "e">>}

\* OptionQuery.OPS, as its (key, value) pairs
OPS ==
    {<<<<"<">>, <<"l", "t">>>>,
     <<<<"l", "t">>, <<"l", "t">>>>,
     <<<<">">>, <<"g", "t">>>>,
     <<<<"g", "t">>, <<"g", "t">>>>,
     <<<<">", "=">>, <<"g", "t", "e">>>>,
     <<<<"g", "t", "e">>, <<"g", "t", "e">>>>,
     <<<<"<", "=">>, <<"l", "t", "e">>>>,
     <<<<"l", "t", "e">>, <<"l", "t", "e">>>>,
     <<<<"=">>, <<"e", "q">>>>,
     <<<<"=", "=">>, <<"e", "q">>>>,
     <<<<"e", "q">>, <<"e", "q">>>>}

OPS_keys == {kv[1] : kv \in OPS}

\* OPS[op]
OPS_get(op) == (CHOOSE kv \in OPS : kv[1] = op)[2]

XDATE == <<"x", "d", "a", "t", "e">>

Pad4(n) == <<Digits[((n \div 1000) % 10) + 1], Digits[((n \div 100) % 10) + 1]>>
               \o Pad2(n)

\* Timestamp.strftime('%Y%m%d')
strftime_Ymd(date) == Pad4(date.y) \o Pad2(date.m) \o Pad2(date.d)

\* pd.to_datetime of a filter value: YYYY-MM-DD and YYYYMMDD are ISO 8601
\* dates, which pandas reads itself; any other str is read as to_datetime
\* reads it
value_to_datetime(s) ==
    LET iso == IF Len(s) = 10 /\ s[5] = "-" /\ s[8] = "-"
               THEN SubSeq(s, 1, 4) \o SubSeq(s, 6, 7) \o SubSeq(s, 9, 10)
               ELSE s
    IN  IF Len(iso) = 8 /\ AllDigits(iso)
        THEN LET y == StrInt(SubSeq(iso, 1, 4))
                 m == StrInt(SubSeq(iso, 5, 6))
                 d == StrInt(SubSeq(iso, 7, 8))
             IN  IF ValidDate(y, m, d)
                 THEN [raised |-> FALSE, value |-> [y |-> y, m |-> m, d |-> d]]
                 ELSE [raised |-> TRUE, value |-> NoDate]
        ELSE to_datetime(s)

\* OptionQuery.__init__, from part i of query on; q is self._query so far
RECURSIVE OptionQuery_from(_, _, _)
OptionQuery_from(query, i, q) ==
    IF i > Len(query) THEN [raised |-> FALSE, q |-> q]
    ELSE LET toks == split(query[i])
         IN  IF Len(toks) # 3 THEN [raised |-> TRUE, q |-> q]
             ELSE LET field == lower(toks[1])
                      op == toks[2]
                      date == value_to_datetime(toks[3])
                  IN  IF field \notin FIELDS \/ op \notin OPS_keys
                      THEN OptionQuery_from(query, i + 1, q)
                      ELSE IF field = XDATE /\ date.raised
                      THEN [raised |-> TRUE, q |-> q]
                      ELSE OptionQuery_from(query, i + 1,
                             Append(q, <<field, OPS_get(op),
                                         IF field = XDATE
                                         THEN strftime_Ymd(date.value)
                                         ELSE toks[3]>>))

\* OptionQuery.__init__ of a list of strs
OptionQuery(query) == OptionQuery_from(query, 1, <<>>)

AND == <<" ", "A", "N", "D", " ">>

\* ' AND '.join of the rendered triples from triple i on
RECURSIVE JoinFrom(_, _)
JoinFrom(q, i) ==
    IF i > Len(q) THEN <<>>
    ELSE (IF i > 1 THEN AND ELSE <<>>)
            \o q[i][1] \o <<"-">> \o q[i][2] \o <<":">> \o q[i][3]
            \o JoinFrom(q, i + 1)

\* the mutant of OptionQuery_str that joins the triples last to first
RECURSIVE JoinBack(_, _)
JoinBack(q, i) ==
    IF i < 1 THEN <<>>
    ELSE (IF i < Len(q) THEN AND ELSE <<>>)
            \o q[i][1] \o <<"-">> \o q[i][2] \o <<":">> \o q[i][3]
            \o JoinBack(q, i - 1)

OptionQuery_str_Reversed(q) == JoinBack(q, Len(q))

\* OptionQuery.__str__
OptionQuery_str(q) == JoinFrom(q, 1)

\* the filter expressions a caller passes
E_strike ==
    <<"s", "t", "r", "i", "k", "e", "p", "r", "i", "c", "e", " ", ">", " ",
      "1", "0", "0">>

E_foobar ==
    <<"f", "o", "o", "b", "a", "r", " ", ">", " ", "1">>

E_xyear ==
    <<"x", "y", "e", "a", "r", " ", "=", " ", "2", "0", "1", "6">>

E_XYear ==
    <<"X", "Y", "e", "a", "r", " ", "g", "t", "e", " ", "2", "0", "1", "7">>

E_xdate ==
    <<"x", "d", "a", "t", "e", " ", "<", "=", " ", "2", "0", "1", "6", "-",
      "0", "6", "-", "1", "7">>

E_xdate_bad ==
    <<"x", "d", "a", "t", "e", " ", "e", "q", " ", "X", "X", "X", "X">>

E_two ==
    <<"s", "t", "r", "i", "k", "e", "p", "r", "i", "c", "e", " ", ">", "1",
      "0", "0">>

E_badop ==
    <<"x", "m", "o", "n", "t", "h", " ", "!", "=", " ", "6">>

E_blanks ==
    <<"p", "u", "t", "_", "c", "a", "l", "l", " ", " ", "=", "=", " ", " ",
      " ", "C">>

Expressions ==
    {E_strike, E_foobar, E_xyear, E_XYear, E_xdate, E_xdate_bad, E_two,
     E_badop, E_blanks}

MaxQuery == 3

QueryInputs == UNION {[1..n -> Expressions] : n \in 0..MaxQuery}

\* OptionQuery(query)
NewOptionQuery ==
    /\ oq.pc = "new"
    /\ LET r == OptionQuery(oq.query)
       IN  oq' = [oq EXCEPT !.pc = IF r.raised THEN "raised" ELSE "built",
                            !.q = r.q]
    /\ UNCHANGED <<legs, mls, now, ttl, last, waiting, thr, codec>>

\* str(OptionQuery(query))
StrOptionQuery ==
    /\ oq.pc = "built"
    /\ oq' = [oq EXCEPT !.pc = "serialized", !.str = OptionQuery_str(oq.q)]
    /\ UNCHANGED <<legs, mls, now, ttl, last, waiting, thr, codec>>

(* SpecQuery: an OptionQuery is constructed from a list of expressions and *)
(* serialized.                                                             *)

InitQuery ==
    /\ legs = <<>>
    /\ mls = [m \in {"m1"} |-> NewMultiLeg]
    /\ now = 0
    /\ ttl = DEFAULT_TTL
    /\ last = Op("init", 0, "", "")
    /\ waiting = [r \in Readers |-> NoRead]
    /\ thr = <<>>
    /\ codec = <<>>
    /\ \E query \in QueryInputs :
          oq = [pc |-> "new", query |-> query, q |-> <<>>, str |-> <<>>]

NextQuery ==
    \/ NewOptionQuery
    \/ StrOptionQuery

SpecQuery == InitQuery /\ [][NextQuery]_vars

----------------------------------------------------------------------------
(* SpecCall: option.Call, Put, Straddle, Strangle and Collar build a       *)
(* strategy from a symbol or from its parts; its payoffs are read and it   *)
(* is plotted.                                                             *)

SYM_F150 ==
    <<"F", "1", "6", "0", "6", "1", "7", "C", "0", "0", "1", "5", "0", "0",
      "0", "0">>

SYM_F5 ==
    <<"F", "3", "2", "0", "6", "1", "7", "C", "0", "0", "0", "0", "0", "0",
      "0", "5">>

SYM_P4 ==
    <<"F", "3", "2", "0", "6", "1", "7", "P", "0", "0", "0", "0", "0", "0",
      "0", "4">>

\* a symbol whose strike is 0.0
SYM_F0 ==
    <<"F", "3", "2", "0", "6", "1", "7", "C", "0", "0", "0", "0", "0", "0",
      "0", "0">>

\* (price_range, tick_size) as Price values: ticks that divide the range,
\* one that does not, and 20 and 1 dollars
RangeInputs ==
    {<<1, 1>>, <<2, 1>>, <<2, 2>>, <<4, 2>>, <<3, 2>>, <<20000, 1000>>}

\* **leg_kwargs: the range and tick, no premium source
LegKwargs ==
    { [price_range |-> rt[1], tick_size |-> rt[2], zero |-> TRUE] :
        rt \in RangeInputs }

KW1 == [price_range |-> 1, tick_size |-> 1, zero |-> TRUE]

KW2 == [price_range |-> 2, tick_size |-> 2, zero |-> TRUE]

JUN17 == [y |-> 2032, m |-> 6, d |-> 17]

\* (symbol, long_short, expiration, strike, leg_kwargs) of Call: symbols
\* alone, with every range and tick
CallInputs ==
    { <<sym, ls, NoDate, 0, kw>> :
        sym \in {SYM_F150, SYM_F5, SYM_P4}, ls \in {LONG, SHORT}, kw \in LegKwargs }

\* and of any one-strike builder: a symbol whose strike is 0.0, an
\* underlying alone, the parts given with an underlying and with a symbol,
\* the expiration given without the strike, a flag in lower case
OneStrikeInputs ==
    { <<SYM_F5, LONG, NoDate, 0, KW1>>,
      <<SYM_P4, "s", NoDate, 0, KW2>>,
      <<SYM_F0, LONG, NoDate, 0, KW1>>,
      <<<<"F">>, LONG, NoDate, 0, KW1>>,
      <<<<"F">>, SHORT, JUN17, 5, KW2>>,
      <<SYM_P4, LONG, JUN17, 5, KW1>>,
      <<SYM_F5, LONG, JUN17, 0, KW1>>,
      <<<<"F">>, LONG, JUN17, 0, KW1>> }

\* (symbol, strike, strike, long_short, expiration, leg_kwargs) of the
\* two-strike builders, the strikes a few ticks apart: Strangle takes the
\* call's strike first, Collar the put's, and Collar takes no long_short
TwoStrikeInputs ==
    { <<SYM_F5, 6, 4, LONG, NoDate, KW1>>,
      <<SYM_P4, 4, 6, "s", NoDate, KW2>>,
      <<SYM_F5, 6, 0, SHORT, NoDate, KW1>>,
      <<SYM_F5, 6, 0, LONG, JUN17, KW1>>,
      <<SYM_F0, 0, 4, LONG, JUN17, KW1>>,
      <<<<"F">>, 6, 4, SHORT, JUN17, KW2>>,
      <<<<"F">>, 6, 4, LONG, NoDate, KW1>> }

\* option._leg: unless expiration and strike are both given the symbol is
\* parsed for the underlying, the expiration and the strike, its type being
\* ignored; then the Leg is constructed
_leg(symbol, long_short, call_put, expiration, strike, leg_kwargs) ==
    LET given == expiration # NoDate /\ strike # 0
        Returned(parsed, made) ==
          [raised |-> (~given /\ parsed.raised) \/ made.raised, leg |-> made.leg]
        Constructed(parsed) ==
          Returned(parsed,
                   NewLegObj(
                     [symbol |-> IF given THEN symbol ELSE parsed.underlying,
                      long_short |-> long_short,
                      expiration |-> IF given THEN expiration
                                     ELSE parsed.expiration,
                      call_put |-> call_put,
                      strike |-> IF given THEN strike ELSE parsed.strike,
                      price_range |-> leg_kwargs.price_range,
                      tick_size |-> leg_kwargs.tick_size,
                      zero |-> leg_kwargs.zero]))
    IN  Constructed(parse_option_symbol(symbol))

\* What each builder hands to MultiLeg(*legs, **leg_kwargs): the legs in
\* order, or raised when parsing or a Leg's construction raised.
OneLeg(made) == [raised |-> made.raised, legs |-> <<made.leg>>]

TwoLegs(raised, put, call) ==
    [raised |-> raised \/ put.raised \/ call.raised,
     legs |-> <<put.leg, call.leg>>]

\* option.Call: one leg, a call whatever the symbol says
Call_legs(symbol, long_short, expiration, strike, leg_kwargs) ==
    OneLeg(_leg(symbol, long_short, CALL, expiration, strike, leg_kwargs))

\* option.Put: one leg, a put whatever the symbol says
Put_legs(symbol, long_short, expiration, strike, leg_kwargs) ==
    OneLeg(_leg(symbol, long_short, PUT, expiration, strike, leg_kwargs))

\* option.Straddle: a put and a call of one strike
Straddle_legs(symbol, long_short, expiration, strike, leg_kwargs) ==
    TwoLegs(FALSE,
            _leg(symbol, long_short, PUT, expiration, strike, leg_kwargs),
            _leg(symbol, long_short, CALL, expiration, strike, leg_kwargs))

\* option.Strangle: without an expiration the symbol is parsed for the
\* underlying and the expiration; then a put and a call of their own strikes
Strangle_legs(symbol, call_strike, put_strike, long_short, expiration, leg_kwargs) ==
    LET From(parsed) ==
          LET sym == IF expiration = NoDate THEN parsed.underlying ELSE symbol
              exp == IF expiration = NoDate THEN parsed.expiration
                     ELSE expiration
          IN  TwoLegs(expiration = NoDate /\ parsed.raised,
                      _leg(sym, long_short, PUT, exp, put_strike, leg_kwargs),
                      _leg(sym, long_short, CALL, exp, call_strike, leg_kwargs))
    IN  From(parse_option_symbol(symbol))

\* option.Collar: as Strangle, the put Long and the call Short
Collar_legs(symbol, put_strike, call_strike, expiration, leg_kwargs) ==
    LET From(parsed) ==
          LET sym == IF expiration = NoDate THEN parsed.underlying ELSE symbol
              exp == IF expiration = NoDate THEN parsed.expiration
                     ELSE expiration
          IN  TwoLegs(expiration = NoDate /\ parsed.raised,
                      _leg(sym, LONG, PUT, exp, put_strike, leg_kwargs),
                      _leg(sym, SHORT, CALL, exp, call_strike, leg_kwargs))
    IN  From(parse_option_symbol(symbol))

\* The builders as steps: m becomes MultiLeg(*built.legs, **leg_kwargs), each
\* leg a Leg instance that add_leg appends as it is; when the builder raises
\* there is no MultiLeg and nothing changes.

\* m = option.Call(symbol, long_short, expiration, strike, **leg_kwargs)
Call(m, symbol, long_short, expiration, strike, leg_kwargs) ==
    /\ legs = <<>>
    /\ mls[m].legs = <<>>
    /\ \E built \in {Call_legs(symbol, long_short, expiration, strike,
                                  leg_kwargs)} :
          /\ legs' = IF built.raised THEN legs ELSE built.legs
          /\ mls' = IF built.raised THEN mls
                    ELSE [mls EXCEPT ![m].legs = <<1>>]
          /\ last' = [Op("Call", IF built.raised THEN 0 ELSE 1, m, "")
                        EXCEPT !.raised = built.raised,
                               !.value = IF built.raised THEN 0
                                         ELSE <<leg_kwargs.price_range,
                                                leg_kwargs.tick_size>>]
    /\ UNCHANGED <<waiting, thr, codec, oq, now, ttl>>

\* m = option.Put(symbol, long_short, expiration, strike, **leg_kwargs)
Put(m, symbol, long_short, expiration, strike, leg_kwargs) ==
    /\ legs = <<>>
    /\ mls[m].legs = <<>>
    /\ \E built \in {Put_legs(symbol, long_short, expiration, strike,
                                 leg_kwargs)} :
          /\ legs' = IF built.raised THEN legs ELSE built.legs
          /\ mls' = IF built.raised THEN mls
                    ELSE [mls EXCEPT ![m].legs = <<1>>]
          /\ last' = [Op("Put", IF built.raised THEN 0 ELSE 1, m, "")
                        EXCEPT !.raised = built.raised,
                               !.value = IF built.raised THEN 0
                                         ELSE <<leg_kwargs.price_range,
                                                leg_kwargs.tick_size>>]
    /\ UNCHANGED <<waiting, thr, codec, oq, now, ttl>>

\* m = option.Straddle(symbol, long_short, expiration, strike, **leg_kwargs)
Straddle(m, symbol, long_short, expiration, strike, leg_kwargs) ==
    /\ legs = <<>>
    /\ mls[m].legs = <<>>
    /\ \E built \in {Straddle_legs(symbol, long_short, expiration, strike,
                                      leg_kwargs)} :
          /\ legs' = IF built.raised THEN legs ELSE built.legs
          /\ mls' = IF built.raised THEN mls
                    ELSE [mls EXCEPT ![m].legs = <<1, 2>>]
          /\ last' = [Op("Straddle", IF built.raised THEN 0 ELSE 1, m, "")
                        EXCEPT !.raised = built.raised,
                               !.value = IF built.raised THEN 0
                                         ELSE <<leg_kwargs.price_range,
                                                leg_kwargs.tick_size>>]
    /\ UNCHANGED <<waiting, thr, codec, oq, now, ttl>>

\* m = option.Strangle(symbol, call_strike, put_strike, long_short,
\*                     expiration, **leg_kwargs)
Strangle(m, symbol, call_strike, put_strike, long_short, expiration, leg_kwargs) ==
    /\ legs = <<>>
    /\ mls[m].legs = <<>>
    /\ \E built \in {Strangle_legs(symbol, call_strike, put_strike,
                                      long_short, expiration, leg_kwargs)} :
          /\ legs' = IF built.raised THEN legs ELSE built.legs
          /\ mls' = IF built.raised THEN mls
                    ELSE [mls EXCEPT ![m].legs = <<1, 2>>]
          /\ last' = [Op("Strangle", IF built.raised THEN 0 ELSE 1, m, "")
                        EXCEPT !.raised = built.raised,
                               !.value = IF built.raised THEN 0
                                         ELSE <<leg_kwargs.price_range,
                                                leg_kwargs.tick_size>>]
    /\ UNCHANGED <<waiting, thr, codec, oq, now, ttl>>

\* m = option.Collar(symbol, put_strike, call_strike, expiration,
\*                   **leg_kwargs)
Collar(m, symbol, put_strike, call_strike, expiration, leg_kwargs) ==
    /\ legs = <<>>
    /\ mls[m].legs = <<>>
    /\ \E built \in {Collar_legs(symbol, put_strike, call_strike,
                                    expiration, leg_kwargs)} :
          /\ legs' = IF built.raised THEN legs ELSE built.legs
          /\ mls' = IF built.raised THEN mls
                    ELSE [mls EXCEPT ![m].legs = <<1, 2>>]
          /\ last' = [Op("Collar", IF built.raised THEN 0 ELSE 1, m, "")
                        EXCEPT !.raised = built.raised,
                               !.value = IF built.raised THEN 0
                                         ELSE <<leg_kwargs.price_range,
                                                leg_kwargs.tick_size>>]
    /\ UNCHANGED <<waiting, thr, codec, oq, now, ttl>>

InitCall ==
    /\ legs = <<>>
    /\ mls = [m \in {"m1"} |-> NewMultiLeg]
    /\ now = 0
    /\ ttl = DEFAULT_TTL
    /\ last = Op("init", 0, "", "")
    /\ waiting = [r \in Readers |-> NoRead]
    /\ thr = <<>>
    /\ codec = <<>>
    /\ oq = <<>>

NextCall ==
    \/ \E in \in CallInputs \cup OneStrikeInputs :
          Call("m1", in[1], in[2], in[3], in[4], in[5])
    \/ \E in \in OneStrikeInputs : Put("m1", in[1], in[2], in[3], in[4], in[5])
    \/ \E in \in OneStrikeInputs :
          Straddle("m1", in[1], in[2], in[3], in[4], in[5])
    \/ \E in \in TwoStrikeInputs :
          Strangle("m1", in[1], in[2], in[3], in[4], in[5], in[6])
    \/ \E in \in TwoStrikeInputs :
          Collar("m1", in[1], in[2], in[3], in[5], in[6])
    \/ \E r \in Readers, l \in DOMAIN legs : ReadLeg(r, l, "payoffs")
    \/ \E r \in Readers, m \in DOMAIN mls : ReadMultiLeg(r, m, "payoffs")
    \/ \E r \in Readers, m \in DOMAIN mls :
          \E include_cost \in BOOLEAN, include_premium \in BOOLEAN :
             PlotMultiLeg(r, m, include_cost, include_premium)
    \/ \E r \in Readers, l \in DOMAIN legs :
          \E include_cost \in BOOLEAN, include_premium \in BOOLEAN :
             PlotLeg(r, l, include_cost, include_premium)

SpecCall == InitCall /\ [][NextCall]_vars

----------------------------------------------------------------------------
(* Properties *)

\* the _cache of the object an operation was about
ObjCache(lg, ms, op) == IF op.ml # "" THEN ms[op.ml].cache ELSE lg[op.leg].cache

HasEntry(cache, name) == cache.present /\ name \in DOMAIN cache.d

\* an entry that is there and at time t no older than the TTL (TTL 0: of
\* any age)
FreshAt(cache, name, t) ==
    /\ HasEntry(cache, name)
    /\ (ttl = 0 \/ t - cache.d[name].at <= ttl)

Fresh(cache, name) == FreshAt(cache, name, now)

\* the read or the plot of thread r, which has been waiting, goes on in this
\* step: it ends, or it comes to wait on the request of a later member
Resumes(r) ==
    /\ waiting[r].op # "idle"
    /\ waiting'[r].op = "idle" \/ waiting'[r].i # waiting[r].i

\* the read of thread r, which has been waiting, ends in this step
Returns(r) == waiting[r].op = "read" /\ waiting'[r].op = "idle"

\* a read of a cached property is entered in this step: it ends at once, or
\* it comes to wait
EntersRead ==
    /\ \A r \in Readers : ~Resumes(r)
    /\ \/ last'.op = "read"
       \/ /\ last'.op = "ask"
          /\ \E r \in Readers : waiting[r].op = "idle" /\ waiting'[r].op = "read"

SameEntry(c1, c2, name) ==
    /\ HasEntry(c1, name) <=> HasEntry(c2, name)
    /\ HasEntry(c1, name) => c1.d[name] = c2.d[name]

\* C1 as the claim has it: a read of a cached property returns the stored
\* value without calling the getter exactly when, as it returns, an entry
\* exists and (TTL = 0 or its age <= TTL); otherwise it calls the getter
\* once and stores what the getter returned with the time of the read.
C1_ReadHitsExactlyWhenFresh ==
    [][ last'.op = "read" =>
          LET c == ObjCache(legs, mls, last')
              c2 == ObjCache(legs', mls', last')
              name == last'.prop
          IN IF Fresh(c, name)
             THEN /\ last'.calls = 0
                  /\ ~last'.raised
                  /\ last'.value = c.d[name].value
                  /\ legs' = legs /\ mls' = mls
             ELSE /\ last'.calls = 1
                  /\ ~last'.raised =>
                        /\ HasEntry(c2, name)
                        /\ c2.d[name] = [value |-> last'.value, at |-> last'.at] ]_vars

\* C1: a read of a cached property decides on the entry it finds when it is
\* entered and on the time taken then. It returns the stored value without
\* calling the getter exactly when an entry exists and (TTL = 0 or its age
\* <= TTL); otherwise it calls the getter once, and when the getter has
\* returned it stores the value with the time at which the read was
\* entered, whatever is in the cache by then. A read that waits on a
\* request leaves the entry of its property alone until its getter returns.
C1_ReadDecidesOnEntry ==
    [][ /\ EntersRead =>
             LET c == ObjCache(legs, mls, last')
                 c2 == ObjCache(legs', mls', last')
                 name == last'.prop
             IN IF Fresh(c, name)
                THEN /\ last'.op = "read"
                     /\ last'.calls = 0
                     /\ ~last'.raised
                     /\ last'.value = c.d[name].value
                     /\ legs' = legs /\ mls' = mls
                ELSE IF last'.op = "ask"
                THEN SameEntry(c, c2, name)
                ELSE /\ last'.calls = 1
                     /\ last'.at = now
                     /\ ~last'.raised =>
                           /\ HasEntry(c2, name)
                           /\ c2.d[name] = [value |-> last'.value, at |-> now]
        /\ \A r \in Readers :
             Returns(r) =>
                LET c2 == ObjCache(legs', mls', last') IN
                /\ last'.op = "read" /\ last'.prop = "premium"
                /\ last'.leg = waiting[r].leg /\ last'.ml = waiting[r].ml
                /\ last'.calls = 1
                /\ last'.at = waiting[r].at
                /\ ~last'.raised =>
                      /\ HasEntry(c2, "premium")
                      /\ c2.d["premium"] = [value |-> last'.value, at |-> waiting[r].at]
        /\ \A r \in Readers :
             (Resumes(r) /\ waiting'[r].op = "read") =>
                SameEntry(mls[waiting[r].ml].cache, mls'[waiting[r].ml].cache,
                          "premium") ]_vars

\* C1's case: with TTL 300 a read of a Leg's premium has returned later than
\* it was entered and has stored its value with the time of its entry,
\* while another read of the same premium waits on its request; the entry
\* is in time, and that read's getter has been called all the same
C1_Witness ==
    /\ ttl = DEFAULT_TTL
    /\ last.op = "read" /\ last.prop = "premium" /\ last.ml = ""
    /\ last.calls = 1 /\ ~last.raised
    /\ last.at < now
    /\ Fresh(legs[last.leg].cache, "premium")
    /\ legs[last.leg].cache.d["premium"] = [value |-> last.value, at |-> last.at]
    /\ \E r \in Readers :
          /\ waiting[r].op = "read" /\ waiting[r].ml = ""
          /\ waiting[r].leg = last.leg
          /\ waiting[r].at > last.at

\* C2: deleting a property's entry leaves the instance's other entries as
\* they were, and the read of that property that returns next has
\* recomputed it and stored a fresh entry, one that bears the time at which
\* it returns, whatever the TTL.
C2_InvalidationForcesRecompute ==
    [][ /\ last'.op = "invalidate" =>
             LET c == ObjCache(legs, mls, last')
                 c2 == ObjCache(legs', mls', last')
             IN /\ ~HasEntry(c2, last'.prop)
                /\ \A p \in Props \ {last'.prop} : SameEntry(c, c2, p)
        /\ (last.op = "invalidate" /\ last'.op = "read" /\ last'.leg = last.leg
              /\ last'.ml = last.ml /\ last'.prop = last.prop) =>
             /\ last'.calls = 1
             /\ ~last'.raised =>
                   ObjCache(legs', mls', last').d[last'.prop]
                      = [value |-> last'.value, at |-> now] ]_vars

\* the identity and the tick size of a Leg
LegIdentity(leg) ==
    <<leg.call_put, leg.long_short, leg.strike, leg.zero, leg.tick_size>>

\* C8: reset_start_stop removes only the cached payoffs and sets the domain;
\* the cached cost and premium, the identity and the tick size stay, and the
\* next read of payoffs is computed over the new range.
C8_ResetFrame ==
    [][ /\ last'.op = "reset" =>
             LET l == last'.leg IN
             /\ ~HasEntry(legs'[l].cache, "payoffs")
             /\ SameEntry(legs[l].cache, legs'[l].cache, "cost")
             /\ SameEntry(legs[l].cache, legs'[l].cache, "premium")
             /\ LegIdentity(legs'[l]) = LegIdentity(legs[l])
             /\ <<legs'[l].start, legs'[l].stop>> = last'.value
             /\ mls' = mls
        /\ (last'.op = "read" /\ last'.ml # "" /\ last'.prop = "payoffs") =>
             \A l \in DOMAIN legs :
                /\ SameEntry(legs[l].cache, legs'[l].cache, "cost")
                /\ SameEntry(legs[l].cache, legs'[l].cache, "premium")
                /\ LegIdentity(legs'[l]) = LegIdentity(legs[l])
        /\ (last.op = "reset" /\ last'.op = "read" /\ last'.leg = last.leg
              /\ last'.prop = "payoffs") =>
             /\ last'.calls = 1
             /\ DOMAIN last'.value
                  = PyRange(last.value[1], last.value[2], legs[last.leg].tick_size)
             /\ \A p \in DOMAIN last'.value :
                   last'.value[p] = Leg_payoff(legs[last.leg], p) ]_vars

\* C8's case: a Leg with cost and premium cached has just been reset
C8_Witness ==
    /\ last.op = "reset"
    /\ HasEntry(legs[last.leg].cache, "cost")
    /\ HasEntry(legs[last.leg].cache, "premium")
    /\ legs[last.leg].stop = 8

\* C9 as the claim has it: when the premium source raises on a read of a
\* Leg's premium, or of a MultiLeg's premium through a member Leg, the read
\* raises and writes nothing, and a read of that premium which follows
\* calls the getter, and so the source, again; a premium read raises only
\* where a Leg has a live source.
C9_PremiumErrorPropagates ==
    [][ /\ \A r \in Readers :
             (waiting[r].op = "read" /\ last'.op = "read"
                /\ RequestReturns(r, Raise)) =>
                 /\ last'.raised
                 /\ legs' = legs /\ mls' = mls
        /\ \A r \in Readers :
             (waiting[r].op = "plot" /\ waiting'[r].op = "idle"
                /\ last'.raised) =>
                 /\ last'.op = "plot"
                 /\ legs' = legs /\ mls' = mls
        /\ (last.op = "read" /\ last.raised /\ last.prop = "premium"
              /\ last'.op = "read" /\ last'.leg = last.leg /\ last'.ml = last.ml
              /\ last'.prop = last.prop) => last'.calls = 1
        /\ (last'.op = "read" /\ last'.prop = "premium" /\ last'.raised) =>
              IF last'.ml # ""
              THEN \E i \in 1..Len(mls[last'.ml].legs) :
                      ~legs[mls[last'.ml].legs[i]].zero
              ELSE ~legs[last'.leg].zero ]_vars

\* C9: when the premium source raises on a read of a Leg's premium, or of a
\* MultiLeg's premium through a member Leg, or on a plot, the read raises
\* and writes nothing: every entry is as it was when the request returned,
\* the members read before keeping what they stored. A read of that premium
\* which follows asks the source again unless it finds an entry in time,
\* which another read has stored while the request was under way. A premium
\* read raises only where a Leg has a live source.
C9_ErrorLeavesCacheAlone ==
    [][ /\ \A r \in Readers :
             (waiting[r].op = "read" /\ last'.op = "read"
                /\ RequestReturns(r, Raise)) =>
                 /\ last'.raised
                 /\ legs' = legs /\ mls' = mls
        /\ \A r \in Readers :
             (waiting[r].op = "plot" /\ waiting'[r].op = "idle"
                /\ last'.raised) =>
                 /\ last'.op = "plot"
                 /\ legs' = legs /\ mls' = mls
        /\ (/\ last.op = "read" /\ last.raised /\ last.prop = "premium"
            /\ EntersRead
            /\ last'.prop = "premium" /\ last'.ml = last.ml
            /\ last.ml = "" => last'.leg = last.leg) =>
               IF Fresh(ObjCache(legs, mls, last), "premium")
               THEN last'.op = "read" /\ last'.calls = 0
               ELSE last'.op = "ask" \/ last'.calls = 1
        /\ (/\ last'.raised
            /\ \/ last'.op = "read" /\ last'.prop = "premium"
               \/ last'.op = "plot" /\ last'.ml = ""
               \/ last'.op = "plot" /\ last'.ml # ""
                     /\ Len(mls[last'.ml].legs) > 0) =>
              IF last'.ml # ""
              THEN \E i \in 1..Len(mls[last'.ml].legs) :
                      ~legs[mls[last'.ml].legs[i]].zero
              ELSE ~legs[last'.leg].zero ]_vars

\* C9's case: a read of a Leg's premium has raised, and an entry of that
\* premium is there and in time: another read has stored it while the
\* failing request was under way, for the failing read found none in time
\* when it was entered
C9_Witness ==
    /\ last.op = "read" /\ last.prop = "premium" /\ last.raised /\ last.ml = ""
    /\ Fresh(legs[last.leg].cache, "premium")
    /\ legs[last.leg].cache.d["premium"].at >= last.at

\* what the premiums of the Legs mlegs add up to, from leg i on, when every
\* source answers its quote
RECURSIVE PremiumOf(_, _, _)
PremiumOf(heap, mlegs, i) ==
    IF i > Len(mlegs) THEN 0
    ELSE Leg_premium(heap[mlegs[i]], Quote(QUOTE)).value + PremiumOf(heap, mlegs, i + 1)

\* what the present legs of a MultiLeg give for a cached property
OfPresentLegs(heap, mlegs, name) ==
    IF name = "premium" THEN PremiumOf(heap, mlegs, 1)
    ELSE MultiLegGetter(heap, mlegs, name, now).value

\* C3: a read of a MultiLeg's payoffs, cost or premium returns what its
\* present legs give, also after add_leg and within the TTL.
C3_ReadsReflectAddedLegs ==
    (last.op = "read" /\ last.ml # "" /\ ~last.raised) =>
        last.value = OfPresentLegs(legs, mls[last.ml].legs, last.prop)

\* C4: reading one MultiLeg's payoffs leaves the domain and the cached payoff
\* curve of every Leg held by another MultiLeg as they were.
C4_ReadLeavesOtherMultiLegsLegs ==
    [][ (last'.op = "read" /\ last'.ml # "") =>
          \A m \in DOMAIN mls \ {last'.ml} :
             \A i \in 1..Len(mls[m].legs) :
                LET l == mls[m].legs[i] IN
                /\ legs'[l].start = legs[l].start
                /\ legs'[l].stop = legs[l].stop
                /\ SameEntry(legs[l].cache, legs'[l].cache, "payoffs") ]_vars

\* C6: a computation of MultiLeg.payoffs over a non-empty set of legs sets
\* every member leg's range to [min start, max stop), on which the curve lies,
\* and no step ever shrinks a leg's range.
C6_DomainOnlyWidens ==
    [][ /\ \A l \in DOMAIN legs :
             legs'[l].start <= legs[l].start /\ legs'[l].stop >= legs[l].stop
        /\ (last'.op = "read" /\ last'.ml # "" /\ last'.prop = "payoffs"
              /\ last'.calls = 1 /\ ~last'.raised) =>
             LET members == SeqRange(mls[last'.ml].legs)
                 lo == SetMin({ legs[l].start : l \in members })
                 hi == SetMax({ legs[l].stop : l \in members })
             IN /\ \A l \in members : legs'[l].start = lo /\ legs'[l].stop = hi
                /\ DOMAIN last'.value \subseteq lo..(hi - 1)
                /\ lo \in DOMAIN last'.value ]_vars

\* C6's case: payoffs was computed over two legs whose ranges differed, and
\* both now have the union
C6_Witness ==
    /\ last.op = "read" /\ last.ml # "" /\ last.prop = "payoffs" /\ last.calls = 1
    /\ \E l1, l2 \in SeqRange(mls[last.ml].legs) :
          /\ legs[l1].strike # legs[l2].strike
          /\ legs[l1].start = 2 /\ legs[l1].stop = 8
          /\ legs[l2].start = 2 /\ legs[l2].stop = 8

\* C7: the curve MultiLeg.payoffs computes has at every tick p the sum of the
\* member legs' intrinsic values at p.
C7_CurveIsSumOfLegs ==
    (last.op = "read" /\ last.ml # "" /\ last.prop = "payoffs"
       /\ last.calls = 1 /\ ~last.raised) =>
        \A p \in DOMAIN last.value :
           last.value[p] = MultiLeg_payoff(legs, mls[last.ml].legs, p)

\* C5: whatever the interleaving of concurrent reads of cached properties of
\* a MultiLeg and its Legs, no read ends by raising.
C5_ConcurrentReadsNeverRaise ==
    \A t \in DOMAIN thr : thr[t].pc = "done" => ~thr[t].raised

\* the symbol of the parts came back from parse_option_symbol as the parts
RoundTrips(c) ==
    /\ ~c.out.raised
    /\ c.out.underlying = c.args.underlying
    /\ c.out.expiration = c.args.expiration
    /\ c.out.call_put = c.args.call_put
    /\ c.out.strike = c.args.strike

\* C10: for every underlying, expiration date, option type and strike >= 0,
\* parse_option_symbol(option_symbol(underlying, date, type, strike)) gives
\* back (underlying, date, type, strike).
C10_SymbolRoundTrip ==
    codec.pc = "parsed" => RoundTrips(codec)

\* a symbol as the format has it: at least 15 characters, of which the last
\* eight are digits and the six before the type are digits
WellFormed(sym) ==
    /\ Len(sym) >= 15
    /\ AllDigits(FromEnd(sym, -8, 0))
    /\ AllDigits(FromEnd(sym, -15, -9))

\* C11: parse_option_symbol fails (the package has no MalformedSymbol class;
\* ValueError is what its parsing raises) for every str shorter than 15
\* characters and for every str whose date segment is not six digits or
\* whose strike segment is not eight digits: it returns no components.
C11_MalformedSymbolFails ==
    (codec.pc = "parsed" /\ ~WellFormed(codec.symbol)) => codec.out.raised

\* C12: constructing an OptionQuery never raises, whatever the expressions.
C12_OptionQueryNeverRaises ==
    oq.pc # "raised"

\* an expression of three tokens
ThreeTokens(e) == Len(split(e)) = 3

\* a three-token expression that is kept: its lower-cased field is of the
\* whitelist and its operator of the alias table
Retained(e) == lower(split(e)[1]) \in FIELDS /\ split(e)[2] \in OPS_keys

IsXdate(e) == lower(split(e)[1]) = XDATE

\* field-canonicalOperator:value with the value as written
Verbatim(e) ==
    lower(split(e)[1]) \o <<"-">> \o OPS_get(split(e)[2]) \o <<":">>
       \o split(e)[3]

\* field-canonicalOperator:value with the value of an xdate as YYYYMMDD
Normalised(e) ==
    lower(split(e)[1]) \o <<"-">> \o OPS_get(split(e)[2]) \o <<":">>
       \o (IF IsXdate(e) THEN strftime_Ymd(value_to_datetime(split(e)[3]).value)
           ELSE split(e)[3])

\* the strs joined with ' AND '
RECURSIVE JoinAnd(_)
JoinAnd(strs) ==
    IF strs = <<>> THEN <<>>
    ELSE IF Len(strs) = 1 THEN strs[1]
    ELSE strs[1] \o AND \o JoinAnd(Tail(strs))

\* the kept expressions of a query, in its order
Kept(query) == SelectSeq(query, Retained)

\* a kept xdate expression whose value is no date
BadXdate(query) ==
    \E i \in DOMAIN query :
        /\ Retained(query[i]) /\ IsXdate(query[i])
        /\ value_to_datetime(split(query[i])[3]).raised

AllThreeTokens(query) == \A i \in DOMAIN query : ThreeTokens(query[i])

\* C13 as stated: for any sequence of three-token expressions the serialized
\* OptionQuery is the kept expressions, each as field-canonicalOperator:value
\* with the value as written, joined with ' AND ' in input order.
C13_SerializedVerbatim ==
    (oq.pc = "serialized" /\ AllThreeTokens(oq.query)) =>
        oq.str = JoinAnd([i \in DOMAIN Kept(oq.query) |->
                            Verbatim(Kept(oq.query)[i])])

\* C13 amended: for any sequence of three-token expressions, construction
\* raises exactly when a kept xdate expression has a value that is no date;
\* otherwise the serialized OptionQuery is the kept expressions, each as
\* field-canonicalOperator:value with the value of an xdate normalised to
\* YYYYMMDD and any other value as written, joined with ' AND ' in input
\* order.
C13_SerializedNormalised ==
    AllThreeTokens(oq.query) =>
        /\ oq.pc = "raised" => BadXdate(oq.query)
        /\ oq.pc \in {"built", "serialized"} => ~BadXdate(oq.query)
        /\ oq.pc = "serialized" =>
              oq.str = JoinAnd([i \in DOMAIN Kept(oq.query) |->
                                  Normalised(Kept(oq.query)[i])])

\* a query of an xdate, an unknown field and an xyear has been serialized
C13_Witness ==
    /\ oq.pc = "serialized"
    /\ oq.query = <<E_xdate, E_foobar, E_xyear>>
    /\ Len(oq.q) = 2
    /\ oq.str # <<>>

\* C14: the payoffs of a freshly constructed single-leg Call with price
\* range R and tick size T, T dividing R, have exactly 2R/T + 1 points, at
\* strike - R, strike - R + T, ..., strike + R, and at each point p the value
\* Leg.payoff(p): 0 for p <= strike and p - strike above it, negated for a
\* Short leg.
C14_CallCurve ==
    [][ (last.op = "Call" /\ ~last.raised /\ last'.op = "read"
         /\ last'.prop = "payoffs") =>
          LET R == last.value[1]
              T == last.value[2]
              leg == legs[1]
              sign == IF leg.long_short = SHORT THEN -1 ELSE 1
              curve == last'.value
          IN  R % T = 0 =>
                /\ ~last'.raised
                /\ DOMAIN curve = {leg.strike - R + k * T : k \in 0..((2 * R) \div T)}
                /\ Cardinality(DOMAIN curve) = (2 * R) \div T + 1
                /\ \A p \in DOMAIN curve :
                      /\ curve[p] = sign * (IF p <= leg.strike THEN 0
                                            ELSE p - leg.strike)
                      /\ curve[p] = Leg_payoff(leg, p) ]_vars

\* the curve of Call('F160617C00150000', price_range=20, tick_size=1) has
\* been read: 41 points from 130 to 170 dollars
C14_Witness ==
    /\ last.op = "read" /\ last.prop = "payoffs" /\ last.calls = 1
    /\ ~last.raised
    /\ Cardinality(DOMAIN last.value) = 41
    /\ SetMin(DOMAIN last.value) = 130000
    /\ SetMax(DOMAIN last.value) = 170000
    /\ last.value[170000] \in {20000, -20000}

\* the member legs of a MultiLeg all have one tick size
SameTick(mlegs) ==
    \A i, j \in DOMAIN mlegs : legs[mlegs[i]].tick_size = legs[mlegs[j]].tick_size

\* C15: for a MultiLeg whose legs all have the same tick size, the curve
\* MultiLeg.payoffs returns has at every one of its ticks p the value
\* MultiLeg.payoff(p), the sum of the legs' payoffs at the single point p.
C15_PayoffsAgreeWithPayoff ==
    (last.op = "read" /\ last.ml # "" /\ last.prop = "payoffs"
       /\ ~last.raised /\ SameTick(mls[last.ml].legs)) =>
        \A p \in DOMAIN last.value :
           last.value[p] = MultiLeg_payoff(legs, mls[last.ml].legs, p)

====
